---- MODULE Spec2Model ----
\* State-machine model of the browser audio layer of openai-realtime-agents:
\*   - RealtimeClient (agentConfigs/realtimeClient.ts): connect / disconnect /
\*     updateCustomAudioStream and the getUserMedia override;
\*   - useAudioDownload (hooks/useAudioDownload.ts): shared-tab capture, the
\*     stream mixer and the mixed-stream cache.
\* Objects of the page (streams, audio contexts, sessions) live in heaps:
\* sequences indexed by object identity; 0 is null.
EXTENDS Integers, Sequences, FiniteSets, Bags, TLC

VARIABLES
  \* ---- browser environment
  gum,        \* navigator.mediaDevices.getUserMedia: a function value
  streams,    \* heap of MediaStreams: [kind, tracks, listen]
  ctxs,       \* heap of AudioContexts with the graph built in them
  \* ---- RealtimeClient instances
  ctor,       \* options.customAudioStream each client was constructed with
              \* (NotBuilt: no client of that identity yet)
  custom,     \* #customAudioStream
  orig,       \* #originalGetUserMedia
  session,    \* #session
  sessions,   \* heap of RealtimeSession objects, each with the kind of function
              \* getUserMedia was when its transport was created
  conn,       \* per client, the bag of connect() invocations in flight
  preGum,     \* getUserMedia as it was before the client's connect() installed
  lastGum,    \* the latest call of navigator.mediaDevices.getUserMedia
  emitted,    \* the latest RealtimeClient method step and the connection_change
              \* events it emitted
  \* ---- useAudioDownload
  combinedStreamRef,
  browserAudioStreamRef,
  audioContextRef,
  isBrowserAudioEnabled,
  isCapturingBrowserAudio,
  browserAudioError,
  calls,      \* bag of getCombinedAudioStream() invocations awaiting getUserMedia
  caps,       \* bag of startBrowserAudioCapture() invocations awaiting getDisplayMedia
  lastRet,    \* the stream the latest completed getCombinedAudioStream() returned,
              \* until a track ends or capture is stopped or cleanup() runs
  lastCap,    \* what startBrowserAudioCapture() returned, when the latest step
              \* completed one
  mediaRecorderRef,
  recordedChunksRef,
  recorders,  \* heap of MediaRecorders: [state, pending]
  recCalls,   \* bag of startRecording() invocations awaiting getUserMedia, or
              \* past it with their stream and about to resume
  dl,         \* downloadRecording(): the invocations in their 100 ms wait, the
              \* conversions in flight, the files downloaded, the latest outcome
  \* ---- App
  app         \* the page: sessionStatus, sdkClientRef, isBrowserAudioSharing and
              \* the connectToRealtime() invocations in flight

envVars    == <<gum, streams, ctxs>>
clientVars == <<ctor, custom, orig, session, sessions, conn, preGum, lastGum, emitted>>
hookVars   == <<combinedStreamRef, browserAudioStreamRef, audioContextRef,
                isBrowserAudioEnabled, isCapturingBrowserAudio, browserAudioError,
                calls, caps, lastRet, lastCap,
                mediaRecorderRef, recordedChunksRef, recorders, recCalls, dl>>
recVars    == <<mediaRecorderRef, recordedChunksRef, recorders, recCalls, dl>>
vars       == <<envVars, clientVars, hookVars, app>>

\* ---------------------------------------------------------------- bounds
MaxConn     == 1
MaxBinds    == 2
MaxSessions == 2
MaxBuilds   == 2
MaxCaptures == 1
MaxAudio    == 1
MaxRecorders == 2
MaxDownloads == 1
MaxChunks == 2
MaxUpdates == 2
MaxPending == 2

\* The identities of the RealtimeClient objects the page can make.
Clients   == {1, 2}

Null   == 0

\* ctor of an identity no `new RealtimeClient(...)` has used yet.
NotBuilt == -1

\* ---------------------------------------------------------------- functions
\* A function value of the page: the real getUserMedia (base 0) or a wrapper
\* closure of client `base`, behind `binds` applications of Function.prototype.bind.
\* Every install of the override makes a new closure: gen tells the closures
\* of one client apart. Every bind makes a new function object, so a bound
\* function is never reference-equal to its target.
NativeFn      == [base |-> 0,  binds |-> 0, gen |-> 0]
BoundFn(f)    == [f EXCEPT !.binds = @ + 1]
NullFn        == [base |-> -1, binds |-> 0, gen |-> 0]

LiveAudio == [kind |-> "audio", state |-> "live"]
LiveVideo == [kind |-> "video", state |-> "live"]

\* n live tracks of one kind
RECURSIVE Tracks(_, _)
Tracks(n, trk) == IF n = 0 THEN <<>> ELSE <<trk>> \o Tracks(n - 1, trk)

MicStream        == [kind |-> "mic",     tracks |-> <<LiveAudio>>,         listen |-> FALSE]
MixedStream      == [kind |-> "mixed",   tracks |-> <<LiveAudio>>,         listen |-> FALSE]
DisplayStream(n) == [kind |-> "display", tracks |-> Tracks(n, LiveAudio), listen |-> FALSE]

\* MediaStream validity as the code tests it:
\* tracks.length > 0 && tracks.every(track => track.readyState === 'live')
hasValidTracks(s) ==
  /\ Len(streams[s].tracks) > 0
  /\ \A i \in 1..Len(streams[s].tracks) : streams[s].tracks[i].state = "live"

\* stream.getTracks().forEach(track => track.stop())
Stopped(st) ==
  [st EXCEPT !.tracks = [i \in 1..Len(st.tracks) |-> [st.tracks[i] EXCEPT !.state = "ended"]]]

StopAll(heap, s) == [heap EXCEPT ![s] = Stopped(heap[s])]

\* ---------------------------------------------------------------- getUserMedia
\* The client whose wrapper a call of f runs first (Null: none).
WrapperOwner(f) == IF f.base > 0 THEN f.base ELSE Null

StreamResult(s) == [kind |-> "stream",     stream |-> s]
NativeResult    == [kind |-> "native",     stream |-> Null]
TypeErrorResult == [kind |-> "TypeError",  stream |-> Null]
RangeErrorResult == [kind |-> "RangeError", stream |-> Null]
NoResult        == [kind |-> "none",       stream |-> Null]

\* What calling function f with constraints {audio: audio} does, given fuel
\* frames of stack. A bound function calls its target; a wrapper reads its
\* client's fields when it is called. The chain of wrappers entered is a
\* function of the state, so a chain longer than the number of clients
\* re-enters a wrapper for ever: the stack overflows.
RECURSIVE CallFn(_, _, _)
CallFn(f, audio, fuel) ==
  IF f = NullFn THEN TypeErrorResult
  ELSE IF fuel = 0 THEN RangeErrorResult
  ELSE IF f.base = 0 THEN NativeResult
  ELSE IF audio /\ custom[f.base] # Null
         THEN StreamResult(custom[f.base])
  ELSE CallFn(orig[f.base], audio, fuel - 1)

Stack == Cardinality(Clients) + 1

getUserMedia(audio) == CallFn(gum, audio, Stack)

\* ---------------------------------------------------------------- RealtimeClient
\* lastGum when the latest step was no getUserMedia call.
NoGum == [audio |-> FALSE, owner |-> Null, custom |-> Null, result |-> NoResult,
          live |-> TRUE]

\* The RealtimeClient method the latest step ran, the connection_change
\* events it emitted to the listeners, and the last connection_change event the
\* listeners have received so far.
Emitted(op, events) ==
  [op |-> op, events |-> events,
   last |-> IF events = <<>> THEN emitted.last ELSE events[Len(events)]]
NoEmit == [op |-> "none", events |-> <<>>, last |-> "none"]

\* Client c is an object a `new RealtimeClient(...)` has made.
Built(c) == ctor[c] # NotBuilt

\* What localStorage.getItem("browserAudioSharing") returns: null when nothing
\* is stored, or the text stored.
NoItem == "(null)"
StorageItems == {NoItem, "", "true", "false"}

\* The initial isBrowserAudioSharing: `stored ? stored === "true" : false`.
SharingStored(item) == IF item # NoItem /\ item # "" THEN item = "true" ELSE FALSE

\* The page at its first render, before any effect has run, with item in
\* localStorage. listens: the clients whose connection_change the page listens
\* to; fetches: the connectToRealtime() invocations awaiting /api/session, each
\* with the isBrowserAudioSharing of its render; mixes: those that have called
\* getCombinedAudioStream() and built no client yet; pc = "create": one has its
\* key and builds the client next. seen: the sessionStatus of the commit in
\* which the effect on [sessionStatus] last ran. gone: the page was unmounted.
\* closure: the sessionStatus of the render whose toggle handler awaits the
\* capture (the initial value when none does). last: the latest handler,
\* continuation or effect of the page other than the effect on [sessionStatus].
\* cut: the user's latest click on the connection button was a Disconnect made
\* while sessionStatus was CONNECTING.
FirstRender(item) ==
  [sessionStatus |-> "DISCONNECTED", sdkClientRef |-> Null, listens |-> {},
   isBrowserAudioSharing |-> SharingStored(item), mounted |-> FALSE,
   gone |-> FALSE, seen |-> "DISCONNECTED",
   effect |-> FALSE, fetches |-> EmptyBag, mixes |-> 0, pc |-> "idle",
   closure |-> "DISCONNECTED", last |-> "none", cut |-> FALSE]

\* The page is on screen: its first commit has run and it is not unmounted.
Shown == app.mounted /\ ~app.gone

\* The page's connection_change listener, run by emit() for each event.
StatusOf(status) ==
  IF status = "connected" THEN "CONNECTED"
  ELSE IF status = "connecting" THEN "CONNECTING"
  ELSE "DISCONNECTED"

Listen(c, e) ==
  IF c \in app.listens /\ e.events # <<>>
    THEN [app EXCEPT !.sessionStatus = StatusOf(e.events[Len(e.events)])]
    ELSE app

\* A connect() invocation in flight: awaiting the ephemeral key, or awaiting
\* session.connect() of the session it created.
AwaitKey        == [pc |-> "key", sess |-> Null]
AwaitSession(s) == [pc |-> "connecting", sess |-> s]

One(x) == SetToBag({x})

\* The function values the page still holds: the ambient getUserMedia, the
\* originals the clients saved, and those the clients' installs replaced.
HeldFns ==
  {gum} \cup {orig[c] : c \in Clients} \cup {preGum[c] : c \in Clients}

\* The closures of client c among them, bound or not.
HeldGens(c) == {f.gen : f \in {h \in HeldFns : h.base = c}}

\* The closure #overrideGetUserMedia of client c creates: a new function
\* object, reference-equal to none the page holds.
WrapperFn(c) ==
  [base |-> c, binds |-> 0,
   gen |-> CHOOSE n \in 1..(Cardinality(HeldGens(c)) + 1) :
             /\ n \notin HeldGens(c)
             /\ \A m \in 1..(n - 1) : m \in HeldGens(c)]

\* f is a wrapper closure of client c, not bound.
IsWrapperOf(f, c) == f.base = c /\ f.binds = 0

\* What a record of the past keeps of function f: whose closure it is and how
\* often it was bound, not which of that client's closures.
KindOf(f) == [f EXCEPT !.gen = 0]

\* #overrideGetUserMedia without the assignment to navigator.mediaDevices.
OverrideSavesOnly(c, cs) ==
  IF cs = Null
    THEN [gum |-> gum, orig |-> orig[c]]
    ELSE [gum |-> gum, orig |-> BoundFn(gum)]

\* #overrideGetUserMedia, run while #customAudioStream is cs: the ambient
\* function and #originalGetUserMedia it leaves behind.
OverrideGetUserMedia(c, cs) ==
  IF cs = Null
    THEN [gum |-> gum,          orig |-> orig[c]]
    ELSE [gum |-> WrapperFn(c), orig |-> BoundFn(gum)]

\* #restoreGetUserMedia
RestoreGetUserMedia(c) ==
  IF orig[c] # NullFn
    THEN [gum |-> orig[c], orig |-> NullFn]
    ELSE [gum |-> gum,     orig |-> NullFn]

\* The depth of bind chains is capped.
CanOverride == gum.binds < MaxBinds

\* The connect() invocations of the clients in S that await their key: each
\* creates a session when the key arrives.
RECURSIVE KeysAwaited(_)
KeysAwaited(S) ==
  IF S = {} THEN 0
  ELSE LET d == CHOOSE x \in S : TRUE
       IN CopiesIn(AwaitKey, conn[d]) + KeysAwaited(S \ {d})

\* connect(): the synchronous prefix, up to `await getEphemeralKey()`. The
\* bounds leave a session for the call to create.
ConnectCall(c) ==
  /\ Built(c)
  /\ BagCardinality(conn[c]) < MaxConn
  /\ Len(sessions) + KeysAwaited(Clients) < MaxSessions
  /\ session[c] = Null
  /\ conn' = [conn EXCEPT ![c] = @ (+) One(AwaitKey)]
  /\ lastGum' = NoGum
  /\ emitted' = Emitted("connect", <<>>)
  /\ UNCHANGED <<envVars, hookVars, ctor, custom, orig, session, sessions, preGum>>
  /\ app' = Listen(c, emitted')

\* connect() called while a session exists returns at once.
ConnectNoop(c) ==
  /\ session[c] # Null
  /\ lastGum' = NoGum
  /\ emitted' = Emitted("connect", <<>>)
  /\ UNCHANGED <<envVars, hookVars, ctor, custom, orig, session, sessions, conn, preGum>>
  /\ app' = Listen(c, emitted')

\* getEphemeralKey() rejected: connect() rejects.
KeyRejected(c) ==
  /\ BagIn(AwaitKey, conn[c])
  /\ conn' = [conn EXCEPT ![c] = @ (-) One(AwaitKey)]
  /\ lastGum' = NoGum
  /\ emitted' = Emitted("connect", <<>>)
  /\ UNCHANGED <<envVars, hookVars, ctor, custom, orig, session, sessions, preGum>>
  /\ app' = Listen(c, emitted')

\* The history events of one session: the snapshots the session raised as
\* history_updated, and what the client's listeners received, the history_added
\* items in the order they were emitted and the snapshots emitted as
\* history_updated.
NoHistory == [received |-> <<>>, added |-> <<>>, updated |-> <<>>]

\* The key of an item in seenItems: `${item.itemId}:${item.status}`, a text
\* made of the fragments of the id, a colon and the fragments of the status.
ItemKey(item) == item.itemId \o <<":">> \o item.status

\* history.forEach(...): the items whose key is not in seenItems are recorded
\* and emitted as history_added, in the order of the snapshot.
RECURSIVE ForEachItem(_, _)
ForEachItem(seen, history) ==
  IF history = <<>> THEN [seen |-> seen, added |-> <<>>]
  ELSE LET item == Head(history)
           key == ItemKey(item)
           rest == ForEachItem(seen \cup {key}, Tail(history))
       IN IF key \in seen
            THEN rest
            ELSE [seen |-> rest.seen, added |-> <<item>> \o rest.added]

\* getEphemeralKey() resolved: the override, the transport and the session are
\* set up and session.connect() is started, in one synchronous run.
KeyResolved(c) ==
  /\ BagIn(AwaitKey, conn[c])
  /\ Len(sessions) < MaxSessions
  /\ custom[c] # Null => CanOverride
  /\ LET o == IF custom[c] # Null
                THEN OverrideGetUserMedia(c, custom[c])
                ELSE [gum |-> gum, orig |-> orig[c]]
         s == Len(sessions) + 1
     IN /\ gum' = o.gum
        /\ orig' = [orig EXCEPT ![c] = o.orig]
        /\ preGum' = [preGum EXCEPT ![c] = IF custom[c] # Null THEN gum ELSE @]
        /\ sessions' = Append(sessions,
                         [client |-> c, state |-> "connecting", gumAtCreate |-> KindOf(o.gum),
                          seenItems |-> {}, heard |-> NoHistory])
        /\ session' = [session EXCEPT ![c] = s]
        /\ conn' = [conn EXCEPT ![c] = (@ (-) One(AwaitKey)) (+) One(AwaitSession(s))]
  /\ lastGum' = NoGum
  /\ emitted' = Emitted("connect", <<"connecting">>)
  /\ UNCHANGED <<streams, ctxs, hookVars, ctor, custom>>
  /\ app' = Listen(c, emitted')

\* session.connect() of session s resolved: connect() returns.
ConnectResolved(c, s) ==
  /\ BagIn(AwaitSession(s), conn[c])
  /\ sessions' = [sessions EXCEPT ![s].state = IF @ = "connecting" THEN "open" ELSE @]
  /\ conn' = [conn EXCEPT ![c] = @ (-) One(AwaitSession(s))]
  /\ lastGum' = NoGum
  /\ emitted' = Emitted("connect", <<"connected">>)
  /\ UNCHANGED <<envVars, hookVars, ctor, custom, orig, session, preGum>>
  /\ app' = Listen(c, emitted')

\* session.connect() of session s rejected: connect() rejects; #session stays.
ConnectRejected(c, s) ==
  /\ BagIn(AwaitSession(s), conn[c])
  /\ sessions' = [sessions EXCEPT ![s].state = IF @ = "connecting" THEN "failed" ELSE @]
  /\ conn' = [conn EXCEPT ![c] = @ (-) One(AwaitSession(s))]
  /\ lastGum' = NoGum
  /\ emitted' = Emitted("connect", <<>>)
  /\ UNCHANGED <<envVars, hookVars, ctor, custom, orig, session, preGum>>
  /\ app' = Listen(c, emitted')

\* disconnect()
Disconnect(c) ==
  /\ Built(c)
  /\ sessions' = IF session[c] # Null
                   THEN [sessions EXCEPT ![session[c]].state = "closed"]
                   ELSE sessions
  /\ session' = [session EXCEPT ![c] = Null]
  /\ gum' = RestoreGetUserMedia(c).gum
  /\ orig' = [orig EXCEPT ![c] = RestoreGetUserMedia(c).orig]
  /\ preGum' = [preGum EXCEPT ![c] = NullFn]
  /\ lastGum' = NoGum
  /\ emitted' = Emitted(IF emitted.op \in {"disconnect", "disconnect again"}
                           THEN "disconnect again" ELSE "disconnect",
                         <<"disconnected">>)
  /\ UNCHANGED <<streams, ctxs, hookVars, ctor, custom, conn>>
  /\ app' = Listen(c, emitted')

\* The transport of session s raises connection_change with a status: the
\* listener connect() registered forwards 'disconnected' and nothing else.
TransportSignalForwardsAll(c, s, status) ==
  /\ sessions[s].client = c
  /\ sessions[s].state \in {"connecting", "open"}
  /\ sessions' = [sessions EXCEPT ![s].state = IF status = "disconnected"
                                                 THEN "disconnected" ELSE @]
  /\ lastGum' = NoGum
  /\ emitted' = Emitted("transport", <<status>>)
  /\ UNCHANGED <<envVars, hookVars, ctor, custom, orig, session, conn, preGum>>
  /\ app' = Listen(c, emitted')

TransportSignal(c, s, status) ==
  /\ sessions[s].client = c
  /\ sessions[s].state \in {"connecting", "open"}
  /\ sessions' = [sessions EXCEPT ![s].state = IF status = "disconnected"
                                                 THEN "disconnected" ELSE @]
  /\ lastGum' = NoGum
  /\ emitted' = Emitted("transport", IF status = "disconnected"
                                        THEN <<"disconnected">> ELSE <<>>)
  /\ UNCHANGED <<envVars, hookVars, ctor, custom, orig, session, conn, preGum>>
  /\ app' = Listen(c, emitted')

\* Session s raises history_updated with a snapshot of the conversation.
HistoryUpdatedForgets(s, history) ==
  /\ sessions[s].state \in {"connecting", "open"}
  /\ Len(sessions[s].heard.received) < MaxUpdates
  /\ LET each == ForEachItem({}, history)
     IN sessions' = [sessions EXCEPT
          ![s].seenItems = each.seen,
          ![s].heard = [received |-> Append(@.received, history),
                        added   |-> @.added \o each.added,
                        updated |-> Append(@.updated, history)]]
  /\ lastGum' = NoGum
  /\ emitted' = Emitted("history", <<>>)
  /\ UNCHANGED <<envVars, hookVars, ctor, custom, orig, session, conn, preGum>>
  /\ app' = app

HistoryUpdated(s, history) ==
  /\ sessions[s].state \in {"connecting", "open"}
  /\ Len(sessions[s].heard.received) < MaxUpdates
  /\ LET each == ForEachItem(sessions[s].seenItems, history)
     IN sessions' = [sessions EXCEPT
          ![s].seenItems = each.seen,
          ![s].heard = [received |-> Append(@.received, history),
                        added   |-> @.added \o each.added,
                        updated |-> Append(@.updated, history)]]
  /\ lastGum' = NoGum
  /\ emitted' = Emitted("history", <<>>)
  /\ UNCHANGED <<envVars, hookVars, ctor, custom, orig, session, conn, preGum>>
  /\ app' = app

\* updateCustomAudioStream(stream)
UpdateCustomAudioStream(c, s) ==
  /\ Built(c)
  /\ s # Null => CanOverride
  /\ custom' = [custom EXCEPT ![c] = s]
  /\ IF s # Null
       THEN LET o == OverrideGetUserMedia(c, s)
            IN /\ gum' = o.gum
               /\ orig' = [orig EXCEPT ![c] = o.orig]
       ELSE /\ gum' = RestoreGetUserMedia(c).gum
            /\ orig' = [orig EXCEPT ![c] = RestoreGetUserMedia(c).orig]
  /\ lastGum' = NoGum
  /\ emitted' = Emitted("update", <<>>)
  /\ UNCHANGED <<streams, ctxs, hookVars, ctor, session, sessions, conn, preGum>>
  /\ app' = Listen(c, emitted')

\* A caller in the page (the WebRTC transport while it connects) calls
\* navigator.mediaDevices.getUserMedia(constraints).
GetUserMediaCall(audio) ==
  /\ lastGum' = [audio   |-> audio,
                 owner   |-> WrapperOwner(gum),
                 custom  |-> IF WrapperOwner(gum) = Null THEN Null
                             ELSE custom[WrapperOwner(gum)],
                 result  |-> getUserMedia(audio),
                 live    |-> IF getUserMedia(audio).kind = "stream"
                               THEN hasValidTracks(getUserMedia(audio).stream)
                               ELSE TRUE]
  /\ lastGum' # lastGum
  /\ emitted' = Emitted("none", <<>>)
  /\ UNCHANGED <<envVars, hookVars, ctor, custom, orig, session, sessions, conn, preGum>>
  /\ app' = app

\* ---------------------------------------------------------------- useAudioDownload
MicGain     == 10    \* gain.value = 1.0, in tenths
BrowserGain == 7     \* gain.value = 0.7, in tenths

\* checkBrowserAudioSupport() in environment e.
checkBrowserAudioSupport(e) ==
  IF ~(e.isSecureContext \/ e.hostname = "localhost" \/ e.hostname = "127.0.0.1")
    THEN [supported |-> FALSE,
          reason |-> "Browser audio sharing requires HTTPS or localhost. Please use HTTPS or run on localhost."]
  ELSE IF ~e.getDisplayMedia
    THEN [supported |-> FALSE,
          reason |-> "Your browser doesn't support screen/audio sharing (getDisplayMedia not available)."]
  ELSE IF e.firefox /\ e.android
    THEN [supported |-> FALSE,
          reason |-> "Firefox on Android doesn't support audio capture through screen sharing."]
  ELSE [supported |-> TRUE, reason |-> "null"]

\* Environments: a desktop browser on an HTTPS page, and that environment
\* with one property changed at a time.
Desktop == [isSecureContext |-> TRUE, hostname |-> "example.org",
            getDisplayMedia |-> TRUE, firefox |-> FALSE, android |-> FALSE]
Envs == {Desktop,
         [Desktop EXCEPT !.isSecureContext = FALSE],
         [Desktop EXCEPT !.isSecureContext = FALSE, !.hostname = "localhost"],
         [Desktop EXCEPT !.isSecureContext = FALSE, !.hostname = "127.0.0.1"],
         [Desktop EXCEPT !.getDisplayMedia = FALSE],
         [Desktop EXCEPT !.firefox = TRUE],
         [Desktop EXCEPT !.firefox = TRUE, !.android = TRUE]}

\* A message is a sequence of fragments of text, so that one message can
\* contain another.  Messages a rejected getDisplayMedia() carries.
DisplayErrors == {<<"Permission denied">>,
                  <<"Permission denied", " by system">>,
                  <<"NotAllowedError">>,
                  <<"NotSupportedError">>,
                  <<"Not supported">>}

\* The message the third strategy's catch composes around the innermost error.
Composed(msg) ==
  <<"Browser audio capture not supported. Try: 1) Use Chrome/Edge on desktop 2) Share \"entire screen\" or \"browser tab\" with audio 3) Ensure system audio is enabled. Details: ">>
    \o msg
Plain(msg)    == <<msg>>

\* Message m contains the message part: part's fragments occur in m, in a row.
Contains(m, part) ==
  \E i \in 0..(Len(m) - Len(part)) : SubSeq(m, i + 1, i + Len(part)) = part

\* errorMessage.includes(word), for a word that is one fragment.
Includes(m, word) == \E i \in 1..Len(m) : m[i] = word

\* The texts the outer catch shows in place of the message it caught.
PermissionText == <<"Permission denied", ". Please allow screen/audio sharing and try again.">>
UnsupportedText ==
  <<"Browser audio sharing not supported. Try using Chrome/Edge on desktop with HTTPS or localhost.">>

\* An outer catch without the permission wording.
SurfacedVerbatim(m) ==
  IF Includes(m, "NotSupportedError") THEN UnsupportedText ELSE m

\* The outer catch of startBrowserAudioCapture: the error it leaves in
\* browserAudioError for a thrown message m.
SurfacedError(m) ==
  IF Includes(m, "Permission denied") \/ Includes(m, "NotAllowedError")
    THEN PermissionText
  ELSE IF Includes(m, "NotSupportedError")
    THEN UnsupportedText
  ELSE m

NoError == Plain("null")

\* What a completed startBrowserAudioCapture() returned: a stream or null.
\* inner is the message of the third strategy's error, if that strategy failed.
NoInner == <<>>
CapReturned(s, inner) == [done |-> TRUE, stream |-> s, inner |-> inner]
NoCap == [done |-> FALSE, stream |-> Null, inner |-> NoInner]

\* The number of streams getDisplayMedia has handed out.
Captured == Cardinality({s \in DOMAIN streams : streams[s].kind = "display"})

\* startBrowserAudioCapture() without the support check.
CaptureCallUnchecked(e) ==
  /\ BagCardinality(caps) + Captured < MaxCaptures
  /\ caps' = caps (+) One("first")
  /\ isCapturingBrowserAudio' = TRUE
  /\ browserAudioError' = NoError
  /\ lastCap' = NoCap
  /\ lastGum' = NoGum
  /\ UNCHANGED <<recVars, envVars, ctor, custom, orig, session, sessions, conn, preGum, emitted, app,
                 combinedStreamRef, browserAudioStreamRef, audioContextRef, calls, lastRet,
                 isBrowserAudioEnabled>>

\* startBrowserAudioCapture(): the synchronous prefix, in environment e.
CaptureCall(e) ==
  /\ BagCardinality(caps) + Captured < MaxCaptures
  /\ IF checkBrowserAudioSupport(e).supported
       THEN /\ caps' = caps (+) One("first")
            /\ isCapturingBrowserAudio' = TRUE
            /\ browserAudioError' = NoError
            /\ lastCap' = NoCap
            /\ UNCHANGED isBrowserAudioEnabled
       ELSE /\ caps' = caps
            /\ lastCap' = CapReturned(Null, NoInner)
            /\ isCapturingBrowserAudio' = FALSE
            /\ isBrowserAudioEnabled' = FALSE
            /\ browserAudioError' = SurfacedError(Plain(checkBrowserAudioSupport(e).reason))
  /\ lastGum' = NoGum
  /\ UNCHANGED <<recVars, envVars, ctor, custom, orig, session, sessions, conn, preGum, emitted, app,
                 combinedStreamRef, browserAudioStreamRef, audioContextRef, calls, lastRet>>

\* The messages of the errors startBrowserAudioCapture() throws itself.
NoAudioTracks ==
  <<"No audio tracks in the shared stream. Make sure to select 'Share audio' when prompted.">>
NoAudioFound == <<"No audio tracks found in the shared stream">>

\* An outer catch that leaves the capturing flag as it was.
CaptureFailsBusy(p, m, inner) ==
  /\ caps' = caps (-) One(p)
  /\ isBrowserAudioEnabled' = FALSE
  /\ browserAudioError' = SurfacedError(m)
  /\ lastCap' = CapReturned(Null, inner)
  /\ UNCHANGED <<browserAudioStreamRef, isCapturingBrowserAudio>>

\* The outer catch: the invocation at strategy p resolves to null, leaving the
\* error for the thrown message m.
CaptureFails(p, m, inner) ==
  /\ caps' = caps (-) One(p)
  /\ isCapturingBrowserAudio' = FALSE
  /\ isBrowserAudioEnabled' = FALSE
  /\ browserAudioError' = SurfacedError(m)
  /\ lastCap' = CapReturned(Null, inner)
  /\ UNCHANGED browserAudioStreamRef

\* The tail of startBrowserAudioCapture() once a stream with n audio tracks is
\* in hand: it is kept, with an 'ended' listener on every audio track.
CaptureKeeps(p, n) ==
  /\ streams' = Append(streams, [DisplayStream(n) EXCEPT !.listen = TRUE])
  /\ browserAudioStreamRef' = Len(streams) + 1
  /\ isBrowserAudioEnabled' = TRUE
  /\ caps' = caps (-) One(p)
  /\ lastCap' = CapReturned(Len(streams) + 1, NoInner)
  /\ UNCHANGED <<isCapturingBrowserAudio, browserAudioError>>


\* Strategy p (1 or 2, audio only) resolved with a stream of n audio tracks.
AudioOnlyResolved(p, n) ==
  /\ p \in {"first", "second"}
  /\ BagIn(p, caps)
  /\ IF n = 0
       THEN /\ CaptureFails(p, NoAudioTracks, NoInner)
            /\ UNCHANGED streams
       ELSE CaptureKeeps(p, n)
  /\ lastGum' = NoGum
  /\ UNCHANGED <<recVars, gum, ctxs, ctor, custom, orig, session, sessions, conn, preGum, emitted, app,
                 combinedStreamRef, audioContextRef, calls, lastRet>>

\* A rejected strategy followed by the audio+video strategy at once.
AudioOnlySkips(p) ==
  /\ p \in {"first", "second"}
  /\ BagIn(p, caps)
  /\ caps' = (caps (-) One(p)) (+) One("third")
  /\ lastGum' = NoGum
  /\ lastCap' = NoCap
  /\ UNCHANGED <<recVars, envVars, ctor, custom, orig, session, sessions, conn, preGum, emitted, app,
                 combinedStreamRef, browserAudioStreamRef, audioContextRef,
                 isBrowserAudioEnabled, isCapturingBrowserAudio, browserAudioError,
                 calls, lastRet>>

\* Strategy p (1 or 2) rejected: the next strategy is tried.
AudioOnlyRejected(p) ==
  /\ p \in {"first", "second"}
  /\ BagIn(p, caps)
  /\ caps' = (caps (-) One(p)) (+) One(IF p = "first" THEN "second" ELSE "third")
  /\ lastGum' = NoGum
  /\ lastCap' = NoCap
  /\ UNCHANGED <<recVars, envVars, ctor, custom, orig, session, sessions, conn, preGum, emitted, app,
                 combinedStreamRef, browserAudioStreamRef, audioContextRef,
                 isBrowserAudioEnabled, isCapturingBrowserAudio, browserAudioError,
                 calls, lastRet>>

\* Strategy 3 (audio + video) resolved with n audio tracks and a video track:
\* the audio tracks go into a new stream and the video track is stopped, or,
\* with no audio track, the shared stream is left as it is.
AudioVideoResolved(n) ==
  /\ BagIn("third", caps)
  /\ IF n = 0
       THEN /\ CaptureFails("third", Composed(NoAudioFound), NoAudioFound)
            /\ streams' = Append(streams, [kind |-> "display", tracks |-> <<LiveVideo>>,
                                           listen |-> FALSE])
       ELSE CaptureKeeps("third", n)
  /\ lastGum' = NoGum
  /\ UNCHANGED <<recVars, gum, ctxs, ctor, custom, orig, session, sessions, conn, preGum, emitted, app,
                 combinedStreamRef, audioContextRef, calls, lastRet>>

\* Strategy 3 rejected with message m: all approaches failed.
AudioVideoRejected(m) ==
  /\ BagIn("third", caps)
  /\ CaptureFails("third", Composed(m), m)
  /\ lastGum' = NoGum
  /\ UNCHANGED <<recVars, envVars, ctor, custom, orig, session, sessions, conn, preGum, emitted, app,
                 combinedStreamRef, audioContextRef, calls, lastRet>>

\* The latest getCombinedAudioStream() since a track last ended or was stopped,
\* capture was stopped or cleanup() ran (NoRet: none since): it is "pending",
\* it "failed" (returned null), or it returned stream, which it "built", took
\* from the cache ("cached"), or took from the cache as the call before it had
\* returned it ("again").
Returned(s, how) == [stream |-> s, how |-> how]
NoRet == Returned(Null, "none")

\* stopBrowserAudioCapture() on a heap and a held reference: the tracks of the
\* held stream are stopped and the reference is cleared.
StopCaptureOf(heap, ref) ==
  [streams |-> IF ref # Null THEN StopAll(heap, ref) ELSE heap,
   ref     |-> Null]

\* A stopRecording() that keeps the handle.
StopRecordingKeeps(recs, ref) ==
  IF ref # Null
    THEN [recorders |-> [recs EXCEPT ![ref].state = "inactive", ![ref].pending = @ + 2],
          ref       |-> ref,
          issued    |-> 2]
    ELSE [recorders |-> recs, ref |-> ref, issued |-> 0]

\* stopRecording() on the recorders and the handle: a held recorder gets
\* requestData() and stop(), each of which queues a dataavailable event, and
\* the handle is cleared; issued counts the calls made on a recorder. (A held
\* recorder is always recording: only stopRecording() makes one inactive.)
StopRecordingOf(recs, ref) ==
  IF ref # Null
    THEN [recorders |-> [recs EXCEPT ![ref].state = "inactive", ![ref].pending = @ + 2],
          ref       |-> Null,
          issued    |-> 2]
    ELSE [recorders |-> recs, ref |-> ref, issued |-> 0]

\* stopBrowserAudioCapture(): the heap and the reference it leaves behind.
StopCapture == StopCaptureOf(streams, browserAudioStreamRef)

StopBrowserAudioCapture ==
  /\ streams' = StopCapture.streams
  /\ browserAudioStreamRef' = StopCapture.ref
  /\ isBrowserAudioEnabled' = FALSE
  /\ isCapturingBrowserAudio' = FALSE
  /\ browserAudioError' = NoError
  /\ lastRet' = NoRet
  /\ lastGum' = NoGum
  /\ lastCap' = NoCap
  /\ UNCHANGED <<recVars, gum, ctxs, ctor, custom, orig, session, sessions, conn, preGum, emitted, app,
                 combinedStreamRef, audioContextRef, calls, caps>>

\* The test with the validity check inverted.
CacheStale == combinedStreamRef # Null /\ ~hasValidTracks(combinedStreamRef)

\* The test at the head of getCombinedAudioStream(): a cached stream exists and
\* all its tracks are live.
CacheHit == combinedStreamRef # Null /\ hasValidTracks(combinedStreamRef)

\* getCombinedAudioStream() with a valid cached stream returns it.
GetCombinedHit ==
  /\ CacheHit
  /\ lastRet' = Returned(combinedStreamRef,
                         IF lastRet.stream = combinedStreamRef THEN "again" ELSE "cached")
  /\ lastGum' = NoGum
  /\ lastCap' = NoCap
  /\ UNCHANGED <<recVars, envVars, ctor, custom, orig, session, sessions, conn, preGum, emitted, app,
                 combinedStreamRef, browserAudioStreamRef, audioContextRef,
                 isBrowserAudioEnabled, isCapturingBrowserAudio, browserAudioError,
                 calls, caps>>

\* getCombinedAudioStream() without one: an invalid cached stream is stopped and
\* dropped, and createCombinedAudioStream() asks getUserMedia for the microphone.
GetCombinedMiss ==
  /\ ~CacheHit
  /\ BagCardinality(calls) + Len(ctxs) < MaxBuilds
  /\ streams' = IF combinedStreamRef # Null
                  THEN StopAll(streams, combinedStreamRef) ELSE streams
  /\ combinedStreamRef' = Null
  /\ calls' = calls (+) One(getUserMedia(TRUE))
  /\ lastRet' = IF lastRet.stream = Null THEN Returned(Null, "pending") ELSE lastRet
  /\ lastGum' = NoGum
  /\ lastCap' = NoCap
  /\ UNCHANGED <<recVars, gum, ctxs, ctor, custom, orig, session, sessions, conn, preGum, emitted, app,
                 browserAudioStreamRef, audioContextRef,
                 isBrowserAudioEnabled, isCapturingBrowserAudio, browserAudioError,
                 caps>>

\* The secondary branch without the validity check on the held stream.
SecondaryUnchecked(attaches) ==
  IF browserAudioStreamRef = Null
    THEN [sec |-> Null, secGain |-> 0, ref |-> Null, enabled |-> isBrowserAudioEnabled]
  ELSE IF attaches
    THEN [sec |-> browserAudioStreamRef, secGain |-> BrowserGain,
          ref |-> browserAudioStreamRef, enabled |-> isBrowserAudioEnabled]
  ELSE [sec |-> Null, secGain |-> 0,
        ref |-> browserAudioStreamRef, enabled |-> isBrowserAudioEnabled]

\* The secondary branch of createCombinedAudioStream(): what becomes of the held
\* shared-tab stream and which stream, at which gain, joins the graph.
\* attaches: createMediaStreamSource and the connects raise no error.
SecondaryBranch(attaches) ==
  IF browserAudioStreamRef = Null
    THEN [sec |-> Null, secGain |-> 0, ref |-> Null, enabled |-> isBrowserAudioEnabled]
  ELSE IF ~hasValidTracks(browserAudioStreamRef)
    THEN [sec |-> Null, secGain |-> 0, ref |-> Null, enabled |-> FALSE]
  ELSE IF attaches
    THEN [sec |-> browserAudioStreamRef, secGain |-> BrowserGain,
          ref |-> browserAudioStreamRef, enabled |-> isBrowserAudioEnabled]
  ELSE [sec |-> Null, secGain |-> 0,
        ref |-> browserAudioStreamRef, enabled |-> isBrowserAudioEnabled]

\* The graph createCombinedAudioStream() builds in a new AudioContext from
\* microphone stream m, with its output in the new stream dest.
Graph(m, dest, attaches) ==
  [state |-> "running", mic |-> m, micGain |-> MicGain,
   sec |-> SecondaryBranch(attaches).sec, secGain |-> SecondaryBranch(attaches).secGain,
   dest |-> dest]

\* createCombinedAudioStream() without the inner try/catch: an error while the
\* held stream is attached reaches the outer catch, and null is returned.
MicResolvedAttachThrows(r, attaches) ==
  /\ BagIn(r, calls)
  /\ r.kind \in {"native", "stream"}
  /\ LET fromDevice == r.kind = "native"
         heap   == IF fromDevice THEN Append(streams, MicStream) ELSE streams
         m      == IF fromDevice THEN Len(streams) + 1 ELSE r.stream
         dest   == Len(heap) + 1
         thrown == /\ browserAudioStreamRef # Null
                   /\ hasValidTracks(browserAudioStreamRef)
                   /\ ~attaches
     IN /\ streams' = Append(heap, MixedStream)
        /\ ctxs' = Append(ctxs, Graph(m, dest, attaches))
        /\ audioContextRef' = Len(ctxs) + 1
        /\ combinedStreamRef' = IF thrown THEN combinedStreamRef ELSE dest
        /\ lastRet' = IF thrown THEN Returned(Null, "failed") ELSE Returned(dest, "built")
  /\ browserAudioStreamRef' = SecondaryBranch(attaches).ref
  /\ isBrowserAudioEnabled' = SecondaryBranch(attaches).enabled
  /\ calls' = calls (-) One(r)
  /\ lastGum' = NoGum
  /\ lastCap' = NoCap
  /\ UNCHANGED <<recVars, gum, ctor, custom, orig, session, sessions, conn, preGum, emitted, app,
                 isCapturingBrowserAudio, browserAudioError, caps>>

\* The getUserMedia call that gave r resolved: createCombinedAudioStream()
\* builds the graph, caches its output stream and returns it.
MicResolved(r, attaches) ==
  /\ BagIn(r, calls)
  /\ r.kind \in {"native", "stream"}
  /\ LET fromDevice == r.kind = "native"
         heap == IF fromDevice THEN Append(streams, MicStream) ELSE streams
         m    == IF fromDevice THEN Len(streams) + 1 ELSE r.stream
         dest == Len(heap) + 1
     IN /\ streams' = Append(heap, MixedStream)
        /\ ctxs' = Append(ctxs, Graph(m, dest, attaches))
        /\ audioContextRef' = Len(ctxs) + 1
        /\ combinedStreamRef' = dest
        /\ lastRet' = Returned(dest, "built")
  /\ browserAudioStreamRef' = SecondaryBranch(attaches).ref
  /\ isBrowserAudioEnabled' = SecondaryBranch(attaches).enabled
  /\ calls' = calls (-) One(r)
  /\ lastGum' = NoGum
  /\ lastCap' = NoCap
  /\ UNCHANGED <<recVars, gum, ctor, custom, orig, session, sessions, conn, preGum, emitted, app,
                 isCapturingBrowserAudio, browserAudioError, caps>>

\* The getUserMedia call that gave r rejected: createCombinedAudioStream()
\* catches the error and returns null.
MicRejected(r) ==
  /\ BagIn(r, calls)
  /\ r.kind # "stream"
  /\ calls' = calls (-) One(r)
  /\ lastRet' = Returned(Null, "failed")
  /\ lastGum' = NoGum
  /\ lastCap' = NoCap
  /\ UNCHANGED <<recVars, envVars, ctor, custom, orig, session, sessions, conn, preGum, emitted, app,
                 combinedStreamRef, browserAudioStreamRef, audioContextRef,
                 isBrowserAudioEnabled, isCapturingBrowserAudio, browserAudioError, caps>>

\* ---------------------------------------------------------------- recording
\* A MediaRecorder just started: no dataavailable event queued.
NewRecorder == [state |-> "recording", pending |-> 0]

\* The sizes of the Blob a dataavailable event carries.
ChunkSizes == {0, 1}

\* A startRecording() past `await getCombinedAudioStream()` with stream s in
\* hand: the rest of startRecording() runs in a later microtask.
Resuming(s) == [kind |-> "resume", stream |-> s]

\* A startRecording() has its stream and has not resumed yet: its tail is in
\* the microtask queue, ahead of every event the browser delivers.
ResumeDue == \E r \in BagToSet(recCalls) : r.kind = "resume"

\* The tail of startRecording(): new MediaRecorder(...), start(), and the
\* handle kept; starts is false when the constructor or start() throws, which
\* the catch logs.
Record(starts) ==
  IF starts
    THEN /\ recorders' = Append(recorders, NewRecorder)
         /\ mediaRecorderRef' = Len(recorders) + 1
    ELSE UNCHANGED <<recorders, mediaRecorderRef>>

\* startRecording() with a valid cached mixed stream, up to its await:
\* getCombinedAudioStream() returns the cached stream, and startRecording()
\* returns to its caller with no recorder made yet.
StartRecordingHit ==
  /\ CacheHit
  /\ BagCardinality(recCalls) + Len(recorders) < MaxRecorders
  /\ recCalls' = recCalls (+) One(Resuming(combinedStreamRef))
  /\ lastRet' = Returned(combinedStreamRef,
                         IF lastRet.stream = combinedStreamRef THEN "again" ELSE "cached")
  /\ lastGum' = NoGum
  /\ lastCap' = NoCap
  /\ UNCHANGED <<dl, mediaRecorderRef, recordedChunksRef, recorders,
                 envVars, ctor, custom, orig, session, sessions, conn, preGum, emitted, app,
                 combinedStreamRef, browserAudioStreamRef, audioContextRef,
                 isBrowserAudioEnabled, isCapturingBrowserAudio, browserAudioError,
                 calls, caps>>

\* startRecording() without one: getCombinedAudioStream() drops an invalid
\* cached stream and asks getUserMedia for the microphone.
StartRecordingMiss ==
  /\ ~CacheHit
  /\ BagCardinality(recCalls) + Len(ctxs) < MaxBuilds
  /\ BagCardinality(recCalls) + Len(recorders) < MaxRecorders
  /\ streams' = IF combinedStreamRef # Null
                  THEN StopAll(streams, combinedStreamRef) ELSE streams
  /\ combinedStreamRef' = Null
  /\ recCalls' = recCalls (+) One(getUserMedia(TRUE))
  /\ lastRet' = IF lastRet.stream = Null THEN Returned(Null, "pending") ELSE lastRet
  /\ lastGum' = NoGum
  /\ lastCap' = NoCap
  /\ UNCHANGED <<dl, mediaRecorderRef, recordedChunksRef, recorders,
                 gum, ctxs, ctor, custom, orig, session, sessions, conn, preGum, emitted, app,
                 browserAudioStreamRef, audioContextRef,
                 isBrowserAudioEnabled, isCapturingBrowserAudio, browserAudioError,
                 calls, caps>>

\* The getUserMedia call of a startRecording() resolved: the mixed stream is
\* built and cached as in createCombinedAudioStream(), which returns it; the
\* awaits of getCombinedAudioStream() and startRecording() pass it on in later
\* microtasks, so no recorder is made yet.
RecMicResolved(r, attaches) ==
  /\ BagIn(r, recCalls)
  /\ r.kind \in {"native", "stream"}
  /\ LET fromDevice == r.kind = "native"
         heap == IF fromDevice THEN Append(streams, MicStream) ELSE streams
         m    == IF fromDevice THEN Len(streams) + 1 ELSE r.stream
         dest == Len(heap) + 1
     IN /\ streams' = Append(heap, MixedStream)
        /\ ctxs' = Append(ctxs, Graph(m, dest, attaches))
        /\ audioContextRef' = Len(ctxs) + 1
        /\ combinedStreamRef' = dest
        /\ lastRet' = Returned(dest, "built")
        /\ recCalls' = (recCalls (-) One(r)) (+) One(Resuming(dest))
  /\ browserAudioStreamRef' = SecondaryBranch(attaches).ref
  /\ isBrowserAudioEnabled' = SecondaryBranch(attaches).enabled
  /\ lastGum' = NoGum
  /\ lastCap' = NoCap
  /\ UNCHANGED <<dl, mediaRecorderRef, recordedChunksRef, recorders,
                 gum, ctor, custom, orig, session, sessions, conn, preGum, emitted, app,
                 isCapturingBrowserAudio, browserAudioError, calls, caps>>

\* A failed startRecording() that makes a recorder all the same.
RecMicRejectedRecords(r) ==
  /\ BagIn(r, recCalls)
  /\ r.kind \notin {"stream", "resume"}
  /\ recCalls' = recCalls (-) One(r)
  /\ Record(TRUE)
  /\ lastRet' = Returned(Null, "failed")
  /\ lastGum' = NoGum
  /\ lastCap' = NoCap
  /\ UNCHANGED <<dl, recordedChunksRef,
                 envVars, ctor, custom, orig, session, sessions, conn, preGum, emitted, app,
                 combinedStreamRef, browserAudioStreamRef, audioContextRef,
                 isBrowserAudioEnabled, isCapturingBrowserAudio, browserAudioError,
                 calls, caps>>

\* The getUserMedia call of a startRecording() rejected: getCombinedAudioStream()
\* returns null, and startRecording() logs and returns.
RecMicRejected(r) ==
  /\ BagIn(r, recCalls)
  /\ r.kind \notin {"stream", "resume"}
  /\ recCalls' = recCalls (-) One(r)
  /\ lastRet' = Returned(Null, "failed")
  /\ lastGum' = NoGum
  /\ lastCap' = NoCap
  /\ UNCHANGED <<dl, mediaRecorderRef, recordedChunksRef, recorders,
                 envVars, ctor, custom, orig, session, sessions, conn, preGum, emitted, app,
                 combinedStreamRef, browserAudioStreamRef, audioContextRef,
                 isBrowserAudioEnabled, isCapturingBrowserAudio, browserAudioError,
                 calls, caps>>

\* A startRecording() that stops the tracks of the stream it was handed.
StartRecordingResumesStops(r, starts) ==
  /\ BagIn(r, recCalls)
  /\ r.kind = "resume"
  /\ recCalls' = recCalls (-) One(r)
  /\ Record(starts)
  /\ streams' = StopAll(streams, r.stream)
  /\ lastGum' = NoGum
  /\ lastCap' = NoCap
  /\ UNCHANGED <<dl, recordedChunksRef,
                 gum, ctxs, ctor, custom, orig, session, sessions, conn, preGum, emitted, app,
                 combinedStreamRef, browserAudioStreamRef, audioContextRef,
                 isBrowserAudioEnabled, isCapturingBrowserAudio, browserAudioError,
                 calls, caps, lastRet>>

\* startRecording() resumes with the stream r.stream it was handed, whatever
\* has become of that stream and of the refs since: it connects the stream to
\* a context of its own, makes the recorder, starts it and keeps the handle.
StartRecordingResumes(r, starts) ==
  /\ BagIn(r, recCalls)
  /\ r.kind = "resume"
  /\ recCalls' = recCalls (-) One(r)
  /\ Record(starts)
  /\ lastGum' = NoGum
  /\ lastCap' = NoCap
  /\ UNCHANGED <<dl, recordedChunksRef,
                 envVars, ctor, custom, orig, session, sessions, conn, preGum, emitted, app,
                 combinedStreamRef, browserAudioStreamRef, audioContextRef,
                 isBrowserAudioEnabled, isCapturingBrowserAudio, browserAudioError,
                 calls, caps, lastRet>>

\* stopRecording()
StopRecording ==
  /\ recorders' = StopRecordingOf(recorders, mediaRecorderRef).recorders
  /\ mediaRecorderRef' = StopRecordingOf(recorders, mediaRecorderRef).ref
  /\ lastGum' = NoGum
  /\ lastCap' = NoCap
  /\ UNCHANGED <<dl, recordedChunksRef, recCalls,
                 envVars, ctor, custom, orig, session, sessions, conn, preGum, emitted, app,
                 combinedStreamRef, browserAudioStreamRef, audioContextRef,
                 isBrowserAudioEnabled, isCapturingBrowserAudio, browserAudioError,
                 calls, caps, lastRet>>

\* An ondataavailable handler that keeps every Blob.
DataAvailableAny(k, size) ==
  /\ recorders[k].pending > 0
  /\ recorders' = [recorders EXCEPT ![k].pending = @ - 1]
  /\ recordedChunksRef' = Append(recordedChunksRef, [rec |-> k, size |-> size])
  /\ lastGum' = NoGum
  /\ lastCap' = NoCap
  /\ UNCHANGED <<dl, mediaRecorderRef, recCalls,
                 envVars, ctor, custom, orig, session, sessions, conn, preGum, emitted, app,
                 combinedStreamRef, browserAudioStreamRef, audioContextRef,
                 isBrowserAudioEnabled, isCapturingBrowserAudio, browserAudioError,
                 calls, caps, lastRet>>

\* Recorder k delivers a queued dataavailable event with a Blob of the given
\* size: ondataavailable pushes the Blob when it is not empty. The chunk is
\* written with the recorder it came from.
DataAvailable(k, size) ==
  /\ recorders[k].pending > 0
  /\ recorders' = [recorders EXCEPT ![k].pending = @ - 1]
  /\ recordedChunksRef' =
       IF size > 0
         THEN Append(recordedChunksRef, [rec |-> k, size |-> size])
         ELSE recordedChunksRef
  /\ lastGum' = NoGum
  /\ lastCap' = NoCap
  /\ UNCHANGED <<dl, mediaRecorderRef, recCalls,
                 envVars, ctor, custom, orig, session, sessions, conn, preGum, emitted, app,
                 combinedStreamRef, browserAudioStreamRef, audioContextRef,
                 isBrowserAudioEnabled, isCapturingBrowserAudio, browserAudioError,
                 calls, caps, lastRet>>

\* ---------------------------------------------------------------- download
\* The bytes of a chunk, each written with the recorder it came from.
Bytes(chunk) == [i \in 1..chunk.size |-> chunk.rec]

\* The bytes of the parts, one part after the other.
RECURSIVE Concat(_)
Concat(parts) ==
  IF parts = <<>> THEN <<>> ELSE Bytes(Head(parts)) \o Concat(Tail(parts))

\* A Blob made of the last part alone.
NewBlobOfLast(parts, type) == [type |-> type, data |-> Bytes(parts[Len(parts)])]

\* new Blob(parts, {type})
NewBlob(parts, type) == [type |-> type, data |-> Concat(parts)]

\* No downloadRecording() yet.
NoDownload == [started |-> 0, waiting |-> 0, converting |-> EmptyBag,
               artifacts |-> <<>>, last |-> "none"]

\* downloadRecording() without the test of the chunk sequence.
ConvertsAlways(d) ==
  [d EXCEPT !.converting = @ (+) One(NewBlob(recordedChunksRef, "audio/webm")),
            !.last = "converting"]

\* downloadRecording() from the test of the chunk sequence on, with d the
\* record of the downloads so far: with no chunk it warns and returns; else
\* it makes one Blob of all chunks and awaits convertWebMBlobToWav(blob).
Converts(d) ==
  IF Len(recordedChunksRef) = 0
    THEN [d EXCEPT !.last = "nothing"]
    ELSE [d EXCEPT !.converting = @ (+) One(NewBlob(recordedChunksRef, "audio/webm")),
                   !.last = "converting"]

\* The recorder is held and recording.
Recording == mediaRecorderRef # Null /\ recorders[mediaRecorderRef].state = "recording"

\* A downloadRecording() that requests the flush and reads the chunks at once.
DownloadRecordingNoWait ==
  /\ dl.started < MaxDownloads
  /\ IF Recording
       THEN /\ recorders' = [recorders EXCEPT ![mediaRecorderRef].pending = @ + 1]
            /\ dl' = Converts([dl EXCEPT !.started = @ + 1])
       ELSE /\ dl' = Converts([dl EXCEPT !.started = @ + 1])
            /\ UNCHANGED recorders
  /\ lastGum' = NoGum
  /\ lastCap' = NoCap
  /\ UNCHANGED <<mediaRecorderRef, recordedChunksRef, recCalls,
                 envVars, ctor, custom, orig, session, sessions, conn, preGum, emitted, app,
                 combinedStreamRef, browserAudioStreamRef, audioContextRef,
                 isBrowserAudioEnabled, isCapturingBrowserAudio, browserAudioError,
                 calls, caps, lastRet>>

\* downloadRecording(): with an active recorder it calls requestData() and
\* waits 100 ms; otherwise it goes on to the chunk sequence at once.
DownloadRecording ==
  /\ dl.started < MaxDownloads
  /\ IF Recording
       THEN /\ recorders' = [recorders EXCEPT ![mediaRecorderRef].pending = @ + 1]
            /\ dl' = [dl EXCEPT !.started = @ + 1, !.waiting = @ + 1, !.last = "waiting"]
       ELSE /\ dl' = Converts([dl EXCEPT !.started = @ + 1])
            /\ UNCHANGED recorders
  /\ lastGum' = NoGum
  /\ lastCap' = NoCap
  /\ UNCHANGED <<mediaRecorderRef, recordedChunksRef, recCalls,
                 envVars, ctor, custom, orig, session, sessions, conn, preGum, emitted, app,
                 combinedStreamRef, browserAudioStreamRef, audioContextRef,
                 isBrowserAudioEnabled, isCapturingBrowserAudio, browserAudioError,
                 calls, caps, lastRet>>

\* The 100 ms timer of a waiting downloadRecording() fires.
DownloadResumes ==
  /\ dl.waiting > 0
  /\ dl' = Converts([dl EXCEPT !.waiting = @ - 1])
  /\ lastGum' = NoGum
  /\ lastCap' = NoCap
  /\ UNCHANGED <<mediaRecorderRef, recordedChunksRef, recorders, recCalls,
                 envVars, ctor, custom, orig, session, sessions, conn, preGum, emitted, app,
                 combinedStreamRef, browserAudioStreamRef, audioContextRef,
                 isBrowserAudioEnabled, isCapturingBrowserAudio, browserAudioError,
                 calls, caps, lastRet>>

\* convertWebMBlobToWav(blob) resolved: the WAV made from blob is downloaded
\* through an anchor element.
ConvertResolved(blob) ==
  /\ BagIn(blob, dl.converting)
  /\ dl' = [dl EXCEPT !.converting = @ (-) One(blob),
                      !.artifacts = Append(@, [type |-> "audio/wav", from |-> blob]),
                      !.last = "downloaded"]
  /\ lastGum' = NoGum
  /\ lastCap' = NoCap
  /\ UNCHANGED <<mediaRecorderRef, recordedChunksRef, recorders, recCalls,
                 envVars, ctor, custom, orig, session, sessions, conn, preGum, emitted, app,
                 combinedStreamRef, browserAudioStreamRef, audioContextRef,
                 isBrowserAudioEnabled, isCapturingBrowserAudio, browserAudioError,
                 calls, caps, lastRet>>

\* convertWebMBlobToWav(blob) rejected: the catch logs the error.
ConvertRejected(blob) ==
  /\ BagIn(blob, dl.converting)
  /\ dl' = [dl EXCEPT !.converting = @ (-) One(blob), !.last = "failed"]
  /\ lastGum' = NoGum
  /\ lastCap' = NoCap
  /\ UNCHANGED <<mediaRecorderRef, recordedChunksRef, recorders, recCalls,
                 envVars, ctor, custom, orig, session, sessions, conn, preGum, emitted, app,
                 combinedStreamRef, browserAudioStreamRef, audioContextRef,
                 isBrowserAudioEnabled, isCapturingBrowserAudio, browserAudioError,
                 calls, caps, lastRet>>

\* cleanup()
Cleanup ==
  /\ streams' = IF combinedStreamRef # Null
                  THEN StopAll(StopCapture.streams, combinedStreamRef)
                  ELSE StopCapture.streams
  /\ browserAudioStreamRef' = StopCapture.ref
  /\ isBrowserAudioEnabled' = FALSE
  /\ isCapturingBrowserAudio' = FALSE
  /\ browserAudioError' = NoError
  /\ ctxs' = IF audioContextRef # Null
               THEN [ctxs EXCEPT ![audioContextRef].state = "closed"] ELSE ctxs
  /\ audioContextRef' = Null
  /\ combinedStreamRef' = Null
  /\ recorders' = StopRecordingOf(recorders, mediaRecorderRef).recorders
  /\ mediaRecorderRef' = StopRecordingOf(recorders, mediaRecorderRef).ref
  /\ lastRet' = NoRet
  /\ lastGum' = NoGum
  /\ lastCap' = NoCap
  /\ UNCHANGED <<dl, recordedChunksRef, recCalls,
                 gum, ctor, custom, orig, session, sessions, conn, preGum, emitted, app, calls, caps>>

\* The streams the page still holds or listens to: the cached mixed stream and
\* the sources of its graph, the held and the listened-to shared-tab streams,
\* the clients' custom streams.
Held(s) ==
  \/ s = combinedStreamRef
  \/ s = browserAudioStreamRef
  \/ streams[s].listen
  \/ \E g \in DOMAIN ctxs : ctxs[g].dest = combinedStreamRef /\ s \in {ctxs[g].mic, ctxs[g].sec}
  \/ \E c \in Clients : s = custom[c]

\* A track that ends with no listener run.
TrackEndedUnheard(s, i) ==
  /\ Held(s)
  /\ streams[s].kind \in {"mic", "display"}
  /\ streams[s].tracks[i].state = "live"
  /\ streams' = [streams EXCEPT ![s].tracks[i].state = "ended"]
  /\ lastRet' = NoRet
  /\ lastGum' = NoGum
  /\ lastCap' = NoCap
  /\ UNCHANGED <<recVars, gum, ctxs, ctor, custom, orig, session, sessions, conn, preGum, emitted, app,
                 combinedStreamRef, browserAudioStreamRef, audioContextRef,
                 isBrowserAudioEnabled, isCapturingBrowserAudio, browserAudioError,
                 calls, caps>>

\* A live track of a held stream is ended by the browser (sharing stopped from
\* the browser chrome, the device unplugged): its 'ended' listeners run.
TrackEnded(s, i) ==
  /\ Held(s)
  /\ streams[s].kind \in {"mic", "display"}
  /\ streams[s].tracks[i].state = "live"
  /\ streams' = [streams EXCEPT ![s].tracks[i].state = "ended"]
  /\ IF streams[s].listen /\ streams[s].tracks[i].kind = "audio"
       THEN /\ isBrowserAudioEnabled' = FALSE
            /\ isCapturingBrowserAudio' = FALSE
            /\ browserAudioStreamRef' = Null
            /\ browserAudioError' = NoError
       ELSE UNCHANGED <<isBrowserAudioEnabled, isCapturingBrowserAudio,
                        browserAudioStreamRef, browserAudioError>>
  /\ lastRet' = NoRet
  /\ lastGum' = NoGum
  /\ lastCap' = NoCap
  /\ UNCHANGED <<recVars, gum, ctxs, ctor, custom, orig, session, sessions, conn, preGum, emitted, app,
                 combinedStreamRef, audioContextRef, calls, caps>>

\* A live track of a held stream is stopped by whoever the hook handed the
\* stream to (track.stop()): its readyState becomes 'ended' and no event is fired.
TrackStopped(s, i) ==
  /\ Held(s)
  /\ streams[s].kind \in {"mixed", "display"}
  /\ streams[s].tracks[i].state = "live"
  /\ streams' = [streams EXCEPT ![s].tracks[i].state = "ended"]
  /\ lastRet' = NoRet
  /\ lastGum' = NoGum
  /\ lastCap' = NoCap
  /\ UNCHANGED <<recVars, gum, ctxs, ctor, custom, orig, session, sessions, conn, preGum, emitted, app,
                 combinedStreamRef, browserAudioStreamRef, audioContextRef,
                 isBrowserAudioEnabled, isCapturingBrowserAudio, browserAudioError,
                 calls, caps>>

\* ---------------------------------------------------------------- specifications
InitHook ==
  /\ combinedStreamRef = Null
  /\ browserAudioStreamRef = Null
  /\ audioContextRef = Null
  /\ isBrowserAudioEnabled = FALSE
  /\ isCapturingBrowserAudio = FALSE
  /\ browserAudioError = NoError
  /\ calls = EmptyBag
  /\ caps = EmptyBag
  /\ lastRet = NoRet
  /\ lastCap = NoCap
  /\ mediaRecorderRef = Null
  /\ recordedChunksRef = <<>>
  /\ recorders = <<>>
  /\ recCalls = EmptyBag
  /\ dl = NoDownload

\* The clients built so far: one, constructed with stream s, or none.
OneClient(s) == [c \in Clients |-> IF c = 1 THEN s ELSE NotBuilt]
NoClient == [c \in Clients |-> NotBuilt]

\* #customAudioStream as the constructors set it.
CustomOf(made) == [c \in Clients |-> IF made[c] = NotBuilt THEN Null ELSE made[c]]

\* Two mixed streams exist, each with one live audio track; one client was
\* constructed with the first of them or with none.
InitClient ==
  /\ gum = NativeFn
  /\ streams = <<MixedStream, MixedStream>>
  /\ ctxs = <<>>
  /\ \E s \in {Null, 1} : ctor = OneClient(s)
  /\ custom = CustomOf(ctor)
  /\ orig = [c \in Clients |-> NullFn]
  /\ session = [c \in Clients |-> Null]
  /\ sessions = <<>>
  /\ conn = [c \in Clients |-> EmptyBag]
  /\ preGum = [c \in Clients |-> NullFn]
  /\ lastGum = NoGum
  /\ emitted = NoEmit
  /\ app = FirstRender(NoItem)
  /\ InitHook

NextClient ==
  \/ \E c \in Clients : ConnectCall(c)
  \/ \E c \in Clients : ConnectNoop(c)
  \/ \E c \in Clients : KeyRejected(c)
  \/ \E c \in Clients : KeyResolved(c)
  \/ \E c \in Clients, s \in DOMAIN sessions : ConnectResolved(c, s)
  \/ \E c \in Clients, s \in DOMAIN sessions : ConnectRejected(c, s)
  \/ \E c \in Clients : Disconnect(c)
  \/ \E c \in Clients, s \in {Null, 2} : UpdateCustomAudioStream(c, s)
  \/ \E audio \in BOOLEAN : GetUserMediaCall(audio)

SpecClient == InitClient /\ [][NextClient]_vars

\* The client's methods alone, with no caller of getUserMedia: every step that
\* installs or removes the override or changes the stream the client holds.
NextInstall ==
  \/ \E c \in Clients : ConnectCall(c)
  \/ \E c \in Clients : ConnectNoop(c)
  \/ \E c \in Clients : KeyRejected(c)
  \/ \E c \in Clients : KeyResolved(c)
  \/ \E c \in Clients, s \in DOMAIN sessions : ConnectResolved(c, s)
  \/ \E c \in Clients, s \in DOMAIN sessions : ConnectRejected(c, s)
  \/ \E c \in Clients : Disconnect(c)
  \/ \E c \in Clients, s \in {Null, 2} : UpdateCustomAudioStream(c, s)

SpecInstall == InitClient /\ [][NextInstall]_vars

\* The hook alone: getUserMedia is the real function throughout.
InitMixer ==
  /\ gum = NativeFn
  /\ streams = <<>>
  /\ ctxs = <<>>
  /\ ctor = NoClient
  /\ custom = CustomOf(ctor)
  /\ orig = [c \in Clients |-> NullFn]
  /\ session = [c \in Clients |-> Null]
  /\ sessions = <<>>
  /\ conn = [c \in Clients |-> EmptyBag]
  /\ preGum = [c \in Clients |-> NullFn]
  /\ lastGum = NoGum
  /\ emitted = NoEmit
  /\ app = FirstRender(NoItem)
  /\ InitHook

\* The mixer with a shared-tab stream that arrives on the first strategy on a
\* supporting desktop browser, or does not arrive.
NextMixer ==
  \/ CaptureCall(Desktop)
  \/ \E n \in 0..MaxAudio : AudioOnlyResolved("first", n)
  \/ StopBrowserAudioCapture
  \/ GetCombinedHit
  \/ GetCombinedMiss
  \/ \E r \in BagToSet(calls), attaches \in BOOLEAN : MicResolved(r, attaches)
  \/ \E r \in BagToSet(calls) : MicRejected(r)
  \/ Cleanup
  \/ \E s \in DOMAIN streams : \E i \in DOMAIN streams[s].tracks : TrackEnded(s, i)
  \/ \E s \in DOMAIN streams : \E i \in DOMAIN streams[s].tracks : TrackStopped(s, i)

SpecMixer == InitMixer /\ [][NextMixer]_vars

\* Capture of the shared tab in every environment, with every outcome of the
\* three strategies, next to the mixer that uses the captured stream.
NextCapture ==
  \/ \E e \in Envs : CaptureCall(e)
  \/ \E p \in {"first", "second"}, n \in 0..MaxAudio : AudioOnlyResolved(p, n)
  \/ \E p \in {"first", "second"} : AudioOnlyRejected(p)
  \/ \E n \in 0..MaxAudio : AudioVideoResolved(n)
  \/ \E m \in DisplayErrors : AudioVideoRejected(m)
  \/ StopBrowserAudioCapture
  \/ GetCombinedHit
  \/ GetCombinedMiss
  \/ \E r \in BagToSet(calls), attaches \in BOOLEAN : MicResolved(r, attaches)
  \/ \E r \in BagToSet(calls) : MicRejected(r)
  \/ \E s \in DOMAIN streams : \E i \in DOMAIN streams[s].tracks : TrackEnded(s, i)

SpecCapture == InitMixer /\ [][NextCapture]_vars

\* startBrowserAudioCapture() has been called and awaits its first strategy,
\* either with nothing held or while the stream of an earlier, successful call
\* is held (that call left the capturing flag set; the new call cleared the
\* error). The call settles; capture is stopped, tracks end and the mixer runs
\* in any order.
InitRecapture ==
  /\ gum = NativeFn
  /\ ctxs = <<>>
  /\ ctor = NoClient
  /\ custom = CustomOf(ctor)
  /\ orig = [c \in Clients |-> NullFn]
  /\ session = [c \in Clients |-> Null]
  /\ sessions = <<>>
  /\ conn = [c \in Clients |-> EmptyBag]
  /\ preGum = [c \in Clients |-> NullFn]
  /\ lastGum = NoGum
  /\ emitted = NoEmit
  /\ app = FirstRender(NoItem)
  /\ combinedStreamRef = Null
  /\ audioContextRef = Null
  /\ \E held \in BOOLEAN :
       /\ streams = IF held THEN <<[DisplayStream(1) EXCEPT !.listen = TRUE]>> ELSE <<>>
       /\ browserAudioStreamRef = IF held THEN 1 ELSE Null
       /\ isBrowserAudioEnabled = held
  /\ isCapturingBrowserAudio = TRUE
  /\ browserAudioError = NoError
  /\ calls = EmptyBag
  /\ caps = One("first")
  /\ lastRet = NoRet
  /\ lastCap = NoCap
  /\ mediaRecorderRef = Null
  /\ recordedChunksRef = <<>>
  /\ recorders = <<>>
  /\ recCalls = EmptyBag
  /\ dl = NoDownload

NextRecapture ==
  \/ \E p \in {"first", "second"}, n \in 0..MaxAudio : AudioOnlyResolved(p, n)
  \/ \E p \in {"first", "second"} : AudioOnlyRejected(p)
  \/ \E n \in 0..MaxAudio : AudioVideoResolved(n)
  \/ \E m \in DisplayErrors : AudioVideoRejected(m)
  \/ StopBrowserAudioCapture
  \/ GetCombinedHit
  \/ GetCombinedMiss
  \/ \E r \in BagToSet(calls), attaches \in BOOLEAN : MicResolved(r, attaches)
  \/ \E r \in BagToSet(calls) : MicRejected(r)
  \/ \E s \in DOMAIN streams : \E i \in DOMAIN streams[s].tracks : TrackEnded(s, i)

SpecRecapture == InitRecapture /\ [][NextRecapture]_vars

\* Recording: the App's recording effect and its cleanup function, and the
\* recorders' events. A startRecording() that has its stream resumes before
\* the browser delivers any event; calls of the hook's functions, made by the
\* code that runs on after the call or by other promise callbacks, come first.
NextRecorder ==
  \/ StartRecordingHit
  \/ StartRecordingMiss
  \/ ~ResumeDue /\ \E r \in BagToSet(recCalls), attaches \in BOOLEAN : RecMicResolved(r, attaches)
  \/ ~ResumeDue /\ \E r \in BagToSet(recCalls) : RecMicRejected(r)
  \/ \E r \in BagToSet(recCalls), starts \in BOOLEAN : StartRecordingResumes(r, starts)
  \/ StopRecording
  \/ ~ResumeDue /\ \E k \in DOMAIN recorders, size \in ChunkSizes : DataAvailable(k, size)

SpecRecorder == InitMixer /\ [][NextRecorder]_vars

\* The recorders after earlier recording sessions: all stopped with their
\* events delivered, or the last one held and recording.
StoppedRecorder == [state |-> "inactive", pending |-> 0]
PastRecorders(held) ==
  [k \in 1..MaxRecorders |-> IF held /\ k = MaxRecorders THEN NewRecorder ELSE StoppedRecorder]

\* The chunk sequences those sessions can have left: up to MaxChunks non-empty
\* chunks of the stopped recorders, at most two of each (one for requestData(),
\* one for stop()), in any order of delivery.
RECURSIVE SeqsUpTo(_, _)
SeqsUpTo(S, n) ==
  IF n = 0 THEN {<<>>}
  ELSE SeqsUpTo(S, n - 1) \cup
       {Append(q, x) : q \in {r \in SeqsUpTo(S, n - 1) : Len(r) = n - 1}, x \in S}
PastChunks(held) ==
  LET stopped == {k \in 1..MaxRecorders : ~(held /\ k = MaxRecorders)}
      all == SeqsUpTo({[rec |-> k, size |-> 1] : k \in stopped}, MaxChunks)
  IN {q \in all : \A k \in stopped :
                     Cardinality({i \in DOMAIN q : q[i].rec = k}) <= 2}

\* The hook after some recording sessions, before any downloadRecording().
InitDownload ==
  /\ gum = NativeFn
  /\ streams = <<>>
  /\ ctxs = <<>>
  /\ ctor = NoClient
  /\ custom = CustomOf(ctor)
  /\ orig = [c \in Clients |-> NullFn]
  /\ session = [c \in Clients |-> Null]
  /\ sessions = <<>>
  /\ conn = [c \in Clients |-> EmptyBag]
  /\ preGum = [c \in Clients |-> NullFn]
  /\ lastGum = NoGum
  /\ emitted = NoEmit
  /\ app = FirstRender(NoItem)
  /\ combinedStreamRef = Null
  /\ browserAudioStreamRef = Null
  /\ audioContextRef = Null
  /\ isBrowserAudioEnabled = FALSE
  /\ isCapturingBrowserAudio = FALSE
  /\ browserAudioError = NoError
  /\ calls = EmptyBag
  /\ caps = EmptyBag
  /\ lastRet = NoRet
  /\ lastCap = NoCap
  /\ recCalls = EmptyBag
  /\ dl = NoDownload
  /\ \E held \in BOOLEAN :
       /\ recorders = PastRecorders(held)
       /\ mediaRecorderRef = IF held THEN MaxRecorders ELSE Null
       /\ recordedChunksRef \in PastChunks(held)

\* downloadRecording() with the converter's two outcomes, while the recorder
\* is stopped and the recorders deliver their events.
NextDownload ==
  \/ StopRecording
  \/ \E k \in DOMAIN recorders, size \in ChunkSizes : DataAvailable(k, size)
  \/ DownloadRecording
  \/ DownloadResumes
  \/ \E blob \in BagToSet(dl.converting) : ConvertResolved(blob)
  \/ \E blob \in BagToSet(dl.converting) : ConvertRejected(blob)

SpecDownload == InitDownload /\ [][NextDownload]_vars

\* Starting and stopping: recording and capture of the shared tab side by
\* side, with cleanup(); any of the calls may fall between the await of a
\* startRecording() and its resumption.
NextStops ==
  \/ StartRecordingHit
  \/ StartRecordingMiss
  \/ ~ResumeDue /\ \E r \in BagToSet(recCalls), attaches \in BOOLEAN : RecMicResolved(r, attaches)
  \/ ~ResumeDue /\ \E r \in BagToSet(recCalls) : RecMicRejected(r)
  \/ \E r \in BagToSet(recCalls), starts \in BOOLEAN : StartRecordingResumes(r, starts)
  \/ StopRecording
  \/ CaptureCall(Desktop)
  \/ ~ResumeDue /\ \E n \in 0..MaxAudio : AudioOnlyResolved("first", n)
  \/ StopBrowserAudioCapture
  \/ Cleanup

SpecStops == InitMixer /\ [][NextStops]_vars

\* c is the identity the next `new RealtimeClient(...)` gives its object.
Fresh(c) == ~Built(c) /\ \A d \in Clients : d < c => Built(d)

\* ---------------------------------------------------------------- App
\* connectToRealtime() up to `await fetchEphemeralKey()`, on page state a: it
\* returns at once unless the session is DISCONNECTED; no earlier call and no
\* earlier client holds it back.
ConnectToRealtime(a) ==
  IF a.sessionStatus # "DISCONNECTED"
    THEN a
    ELSE [a EXCEPT !.sessionStatus = "CONNECTING",
                   !.fetches = @ (+) One(a.isBrowserAudioSharing)]

\* The invocations of connectToRealtime() that have not built their client.
Attempts == BagCardinality(app.fetches) + app.mixes + (IF app.pc = "create" THEN 1 ELSE 0)

\* The bounds leave a session and a client identity for one more
\* connectToRealtime().
CanAttempt ==
  /\ Len(sessions) + Attempts < MaxSessions
  /\ Cardinality({c \in Clients : Built(c)}) + Attempts < Cardinality(Clients)

\* disconnectFromRealtime(), leaving page state a with the client dropped.
DisconnectFromRealtime(a) ==
  LET c    == app.sdkClientRef
      stop == StopRecordingOf(recorders, mediaRecorderRef)
  IN /\ IF c # Null
          THEN /\ sessions' = IF session[c] # Null
                                THEN [sessions EXCEPT ![session[c]].state = "closed"]
                                ELSE sessions
               /\ session' = [session EXCEPT ![c] = Null]
               /\ gum' = RestoreGetUserMedia(c).gum
               /\ orig' = [orig EXCEPT ![c] = RestoreGetUserMedia(c).orig]
               /\ preGum' = [preGum EXCEPT ![c] = NullFn]
               /\ emitted' = Emitted("disconnect", <<"disconnected">>)
          ELSE UNCHANGED <<sessions, session, gum, orig, preGum, emitted>>
     /\ app' = [a EXCEPT !.sdkClientRef = Null, !.sessionStatus = "DISCONNECTED"]
     /\ recorders' = stop.recorders
     /\ mediaRecorderRef' = stop.ref

\* A handler that does not call disconnectFromRealtime().
StaysConnected ==
  UNCHANGED <<sessions, session, gum, orig, preGum, emitted, recorders, mediaRecorderRef>>

\* What every handler of the page leaves alone.
AppFrame ==
  /\ lastGum' = NoGum
  /\ UNCHANGED <<ctxs, ctor, custom, conn, combinedStreamRef, audioContextRef, calls,
                 recordedChunksRef, recCalls, dl>>

\* The effect on the shared stream ending: sharing is on and capture is not.
SharingEnded == ~isBrowserAudioEnabled /\ app.isBrowserAudioSharing

\* The effects of the first commit: the agent of the configuration is selected
\* (the selectedAgentName effect found none yet and runs again in the next
\* commit), and a sharing preference read from localStorage is switched off,
\* no stream being captured. sessionStatus is DISCONNECTED: nothing is
\* disconnected.
FirstCommit ==
  /\ ~app.mounted
  /\ app' = [app EXCEPT !.mounted = TRUE, !.effect = TRUE,
                        !.isBrowserAudioSharing = IF SharingEnded THEN FALSE ELSE @,
                        !.last = "mount"]
  /\ UNCHANGED <<envVars, clientVars, hookVars>>

\* The effect on selectedAgentName, run in the commit after every change of
\* the selected agent.
AgentEffect ==
  /\ Shown
  /\ app.effect
  /\ app' = [ConnectToRealtime(app) EXCEPT !.effect = FALSE, !.last = "effect"]
  /\ UNCHANGED <<envVars, clientVars, hookVars>>

\* onToggleConnection(): the user clicks Connect / Disconnect. The handler
\* tests sessionStatus and nothing else.
ToggleConnection ==
  /\ IF app.sessionStatus \in {"CONNECTED", "CONNECTING"}
       THEN DisconnectFromRealtime([app EXCEPT !.last = "disconnect",
                                               !.cut = (app.sessionStatus = "CONNECTING")])
       ELSE /\ CanAttempt
            /\ app' = [ConnectToRealtime(app) EXCEPT !.last = "connect", !.cut = FALSE]
            /\ StaysConnected
  /\ AppFrame
  /\ UNCHANGED <<streams, browserAudioStreamRef, isBrowserAudioEnabled,
                 isCapturingBrowserAudio, browserAudioError, caps, lastRet, lastCap>>

\* handleSelectedAgentChange(): the user selects another agent. The session is
\* disconnected and the selectedAgentName effect is due.
SelectedAgentChange ==
  /\ CanAttempt
  /\ DisconnectFromRealtime([app EXCEPT !.effect = TRUE, !.last = "agent",
                                        !.cut = FALSE])
  /\ AppFrame
  /\ UNCHANGED <<streams, browserAudioStreamRef, isBrowserAudioEnabled,
                 isCapturingBrowserAudio, browserAudioError, caps, lastRet, lastCap>>

\* fetchEphemeralKey() that takes any response for a key.
KeyFetchedUnchecked(sh, ok) ==
  /\ BagIn(sh, app.fetches)
  /\ app' = [app EXCEPT !.fetches = @ (-) One(sh),
                        !.mixes = IF sh THEN @ + 1 ELSE @,
                        !.pc = IF sh THEN @ ELSE "create",
                        !.last = "key"]
  /\ lastRet' = IF sh THEN NoRet ELSE lastRet
  /\ StaysConnected
  /\ AppFrame
  /\ UNCHANGED <<streams, browserAudioStreamRef, isBrowserAudioEnabled,
                 isCapturingBrowserAudio, browserAudioError, caps, lastCap>>

\* The response of /api/session arrived for a connectToRealtime() made while
\* isBrowserAudioSharing was sh. ok: it has client_secret.value. Without it
\* fetchEphemeralKey() sets DISCONNECTED and connectToRealtime() returns; with
\* it connectToRealtime() goes on to the audio stream.
KeyFetched(sh, ok) ==
  /\ BagIn(sh, app.fetches)
  /\ app' = IF ok
              THEN [app EXCEPT !.fetches = @ (-) One(sh),
                               !.mixes = IF sh THEN @ + 1 ELSE @,
                               !.pc = IF sh THEN @ ELSE "create",
                               !.last = "key"]
              ELSE [app EXCEPT !.fetches = @ (-) One(sh),
                               !.sessionStatus = "DISCONNECTED",
                               !.last = "no key"]
  /\ lastRet' = IF ok /\ sh THEN NoRet ELSE lastRet
  /\ StaysConnected
  /\ AppFrame
  /\ UNCHANGED <<streams, browserAudioStreamRef, isBrowserAudioEnabled,
                 isCapturingBrowserAudio, browserAudioError, caps, lastCap>>

\* A connectToRealtime() is about to call getCombinedAudioStream(), or that
\* call has returned and connectToRealtime() resumes: fewer calls await the
\* microphone than invocations are at that call.
MixCallDue == app.mixes > BagCardinality(calls) /\ lastRet = NoRet
MixReturned ==
  /\ app.mixes > BagCardinality(calls)
  /\ lastRet.how \in {"cached", "again", "built", "failed"}

\* connectToRealtime() from `new RealtimeClient(...)` to `await client.connect()`:
\* a new client is built with the stream getCombinedAudioStream() returned, or
\* with null, sdkClientRef points at it, the page listens to it, and connect()
\* runs up to its first await. The client sdkClientRef held before keeps its
\* session, its listeners and its override.
ClientCreated(c) ==
  /\ app.pc = "create" \/ MixReturned
  /\ Fresh(c)
  /\ LET stream == IF MixReturned THEN lastRet.stream ELSE Null
     IN /\ ctor' = [ctor EXCEPT ![c] = stream]
        /\ custom' = [custom EXCEPT ![c] = stream]
  /\ conn' = [conn EXCEPT ![c] = @ (+) One(AwaitKey)]
  /\ emitted' = [NoEmit EXCEPT !.op = "connect"]
  /\ app' = [app EXCEPT !.sdkClientRef = c, !.listens = @ \cup {c},
                        !.mixes = IF MixReturned THEN @ - 1 ELSE @,
                        !.pc = "idle", !.last = "created"]
  /\ lastGum' = NoGum
  /\ UNCHANGED <<envVars, hookVars, orig, session, sessions, preGum>>

\* The toolbar button as the page renders it.
Button ==
  [label    |-> IF isCapturingBrowserAudio THEN "Starting..."
                ELSE IF browserAudioError # NoError THEN "Audio Error"
                ELSE IF app.isBrowserAudioSharing THEN "Browser Audio ON"
                ELSE "Share Browser Audio",
   disabled |-> isCapturingBrowserAudio,
   active   |-> isBrowserAudioEnabled]

\* handleBrowserAudioSharingToggle(), clicked on the enabled button in
\* environment e, up to its return or its await. With sharing on: capture is
\* stopped, sharing is switched off and a session the render shows CONNECTED
\* is disconnected. With sharing off: without support the alert and nothing
\* else; with support startBrowserAudioCapture() runs up to its
\* getDisplayMedia request, the handler holding the sessionStatus of the
\* render it was made in.
BrowserAudioSharingToggle(e) ==
  /\ ~Button.disabled
  /\ IF app.isBrowserAudioSharing
       THEN /\ streams' = StopCapture.streams
            /\ browserAudioStreamRef' = StopCapture.ref
            /\ isBrowserAudioEnabled' = FALSE
            /\ isCapturingBrowserAudio' = FALSE
            /\ browserAudioError' = NoError
            /\ IF app.sessionStatus = "CONNECTED"
                 THEN DisconnectFromRealtime([app EXCEPT !.isBrowserAudioSharing = FALSE,
                                                         !.last = "reset"])
                 ELSE /\ app' = [app EXCEPT !.isBrowserAudioSharing = FALSE,
                                            !.last = "off"]
                      /\ StaysConnected
            /\ lastRet' = NoRet
            /\ lastCap' = NoCap
            /\ UNCHANGED caps
     ELSE IF ~checkBrowserAudioSupport(e).supported
       THEN /\ app' = [app EXCEPT !.last = "alert"]
            /\ StaysConnected
            /\ UNCHANGED <<streams, browserAudioStreamRef, isBrowserAudioEnabled,
                           isCapturingBrowserAudio, browserAudioError, caps,
                           lastRet, lastCap>>
     ELSE /\ BagCardinality(caps) + Captured < MaxCaptures
          /\ caps' = caps (+) One("first")
          /\ isCapturingBrowserAudio' = TRUE
          /\ browserAudioError' = NoError
          /\ lastCap' = NoCap
          /\ app' = [app EXCEPT !.closure = app.sessionStatus, !.last = "toggle"]
          /\ StaysConnected
          /\ UNCHANGED <<streams, browserAudioStreamRef, isBrowserAudioEnabled, lastRet>>
  /\ AppFrame

\* handleBrowserAudioSharingToggle() after startBrowserAudioCapture() returned:
\* with a stream, sharing is on and a session the handler saw CONNECTED is
\* disconnected.
ToggleContinues ==
  /\ lastCap.done
  /\ IF lastCap.stream # Null
       THEN IF app.closure = "CONNECTED"
              THEN DisconnectFromRealtime([app EXCEPT !.isBrowserAudioSharing = TRUE,
                                                      !.closure = "DISCONNECTED",
                                                      !.last = "reset"])
              ELSE /\ app' = [app EXCEPT !.isBrowserAudioSharing = TRUE,
                                         !.closure = "DISCONNECTED", !.last = "on"]
                   /\ StaysConnected
       ELSE /\ app' = [app EXCEPT !.closure = "DISCONNECTED", !.last = "failed"]
            /\ StaysConnected
  /\ lastCap' = NoCap
  /\ AppFrame
  /\ UNCHANGED <<streams, browserAudioStreamRef, isBrowserAudioEnabled,
                 isCapturingBrowserAudio, browserAudioError, caps, lastRet>>

\* The effect on the shared stream ending (1439-1451): sharing is switched
\* off and a session the commit shows CONNECTED is disconnected.
SharingEffect ==
  /\ Shown
  /\ SharingEnded
  /\ IF app.sessionStatus = "CONNECTED"
       THEN DisconnectFromRealtime([app EXCEPT !.isBrowserAudioSharing = FALSE,
                                               !.last = "reset"])
       ELSE /\ app' = [app EXCEPT !.isBrowserAudioSharing = FALSE, !.last = "off"]
            /\ StaysConnected
  /\ AppFrame
  /\ UNCHANGED <<streams, browserAudioStreamRef, isBrowserAudioEnabled,
                 isCapturingBrowserAudio, browserAudioError, caps, lastRet, lastCap>>

\* sessionStatus is not what it was when the effect on [sessionStatus] last
\* ran: the effect runs in the next commit.
RecordingDue == Shown /\ app.sessionStatus # app.seen

\* The effect on [sessionStatus] (1380-1391), run in the commit after the
\* status changed: the cleanup of its previous run calls stopRecording(); then,
\* with the status CONNECTED and a remote stream in the audio element's
\* srcObject (src: the SDK has set it), startRecording() is called and runs up
\* to its await.
RecordingEffect(src) ==
  /\ RecordingDue
  /\ app' = [app EXCEPT !.seen = app.sessionStatus]
  /\ recorders' = StopRecordingOf(recorders, mediaRecorderRef).recorders
  /\ mediaRecorderRef' = StopRecordingOf(recorders, mediaRecorderRef).ref
  /\ IF ~(app.sessionStatus = "CONNECTED" /\ src)
       THEN UNCHANGED <<streams, combinedStreamRef, recCalls, lastRet>>
     ELSE IF CacheHit
       THEN /\ BagCardinality(recCalls) + Len(recorders) < MaxRecorders
            /\ recCalls' = recCalls (+) One(Resuming(combinedStreamRef))
            /\ lastRet' = Returned(combinedStreamRef,
                                   IF lastRet.stream = combinedStreamRef
                                     THEN "again" ELSE "cached")
            /\ UNCHANGED <<streams, combinedStreamRef>>
       ELSE /\ BagCardinality(recCalls) + Len(ctxs) < MaxBuilds
            /\ BagCardinality(recCalls) + Len(recorders) < MaxRecorders
            /\ streams' = IF combinedStreamRef # Null
                            THEN StopAll(streams, combinedStreamRef) ELSE streams
            /\ combinedStreamRef' = Null
            /\ recCalls' = recCalls (+) One(getUserMedia(TRUE))
            /\ lastRet' = IF lastRet.stream = Null
                            THEN Returned(Null, "pending") ELSE lastRet
  /\ lastGum' = NoGum
  /\ lastCap' = NoCap
  /\ UNCHANGED <<dl, recordedChunksRef,
                 gum, ctxs, ctor, custom, orig, session, sessions, conn, preGum, emitted,
                 browserAudioStreamRef, audioContextRef,
                 isBrowserAudioEnabled, isCapturingBrowserAudio, browserAudioError,
                 calls, caps>>

\* The page is unmounted: the cleanup of the effect on [sessionStatus] calls
\* stopRecording() and the cleanup of the effect on [cleanup] (1433-1437)
\* calls cleanup(). No client is disconnected; the invocations in flight go
\* on, and what they set in the state of the page is rendered no more.
Unmount ==
  /\ Shown
  /\ app' = [app EXCEPT !.gone = TRUE, !.last = "unmount"]
  /\ streams' = IF combinedStreamRef # Null
                  THEN StopAll(StopCapture.streams, combinedStreamRef)
                  ELSE StopCapture.streams
  /\ browserAudioStreamRef' = StopCapture.ref
  /\ isBrowserAudioEnabled' = FALSE
  /\ isCapturingBrowserAudio' = FALSE
  /\ browserAudioError' = NoError
  /\ ctxs' = IF audioContextRef # Null
               THEN [ctxs EXCEPT ![audioContextRef].state = "closed"] ELSE ctxs
  /\ audioContextRef' = Null
  /\ combinedStreamRef' = Null
  /\ recorders' = StopRecordingOf(recorders, mediaRecorderRef).recorders
  /\ mediaRecorderRef' = StopRecordingOf(recorders, mediaRecorderRef).ref
  /\ lastRet' = NoRet
  /\ lastGum' = NoGum
  /\ lastCap' = NoCap
  /\ UNCHANGED <<dl, recordedChunksRef, recCalls,
                 gum, ctor, custom, orig, session, sessions, conn, preGum, emitted,
                 calls, caps>>

\* The page builds its client with `getEphemeralKey: async () => EPHEMERAL_KEY`:
\* the key a connect() awaits is there when the call is made, and connect()
\* resumes before any other event is handled.
KeyDue == \E c \in Clients : BagIn(AwaitKey, conn[c])

\* A promise callback is in the microtask queue: the rest of
\* connectToRealtime(), of the toggle handler, of a client's connect() or of
\* startRecording(), or the rest of a createCombinedAudioStream() whose
\* getUserMedia call was not answered by the device: a client's wrapper, an
\* async function, has returned its stream or has thrown, so the promise is
\* settled. It runs before the page renders and before any event.
ContinuationDue ==
  \/ app.pc = "create" \/ MixCallDue \/ MixReturned \/ lastCap.done \/ KeyDue \/ ResumeDue
  \/ \E r \in BagToSet(calls) \cup BagToSet(recCalls) : r.kind # "native"

\* An effect of the page has to run in the next commit.
EffectDue ==
  ~app.gone /\ (~app.mounted \/ app.effect \/ RecordingDue \/ SharingEnded)

\* A run of the page is due before any other event is handled.
Due == ContinuationDue \/ EffectDue

\* The page: the session is connected by the effect or by the user,
\* browser-audio sharing is switched by the toolbar button or by the shared
\* track ending, and the effect on [sessionStatus] starts and stops the
\* recording. A click reaches the page only while it is on screen.
ShareEnvs == {Desktop, [Desktop EXCEPT !.getDisplayMedia = FALSE]}

InitShare ==
  /\ gum = NativeFn
  /\ streams = <<>>
  /\ ctxs = <<>>
  /\ ctor = NoClient
  /\ custom = CustomOf(ctor)
  /\ orig = [c \in Clients |-> NullFn]
  /\ session = [c \in Clients |-> Null]
  /\ sessions = <<>>
  /\ conn = [c \in Clients |-> EmptyBag]
  /\ preGum = [c \in Clients |-> NullFn]
  /\ lastGum = NoGum
  /\ emitted = NoEmit
  /\ \E item \in StorageItems : app = FirstRender(item)
  /\ InitHook

\* The steps of the page. The promise callbacks run first, then the effects
\* of the commit in the order of their declaration (the agent, the recording,
\* the sharing), then the events: the clicks, and what the browser and the
\* server deliver. The chunks of the recorders and the download are the
\* subject of SpecRecorder and SpecDownload.
NextShare ==
  \/ FirstCommit
  \/ AgentEffect
  \/ ~ContinuationDue /\ ~app.effect /\ \E src \in BOOLEAN : RecordingEffect(src)
  \/ ~ContinuationDue /\ ~app.effect /\ ~RecordingDue /\ SharingEffect
  \/ Shown /\ ~Due /\ ToggleConnection
  \/ Shown /\ ~Due /\ SelectedAgentChange
  \/ Shown /\ ~Due /\ \E e \in ShareEnvs : BrowserAudioSharingToggle(e)
  \/ ~Due /\ \E sh, ok \in BOOLEAN : KeyFetched(sh, ok)
  \/ MixCallDue /\ GetCombinedHit
  \/ MixCallDue /\ GetCombinedMiss
  \/ \E r \in BagToSet(calls), attaches \in BOOLEAN :
       (r.kind # "native" \/ ~Due) /\ MicResolved(r, attaches)
  \/ \E r \in BagToSet(calls) : (r.kind # "native" \/ ~Due) /\ MicRejected(r)
  \/ \E c \in Clients : ClientCreated(c)
  \/ \E c \in Clients : KeyResolved(c)
  \/ ~Due /\ \E c \in Clients, s \in DOMAIN sessions : ConnectResolved(c, s)
  \/ ~Due /\ \E n \in 0..MaxAudio : AudioOnlyResolved("first", n)
  \/ ToggleContinues
  \/ \E r \in BagToSet(recCalls), starts \in BOOLEAN : StartRecordingResumes(r, starts)
  \/ \E r \in BagToSet(recCalls), attaches \in BOOLEAN :
       (r.kind # "native" \/ ~Due) /\ RecMicResolved(r, attaches)
  \/ \E r \in BagToSet(recCalls) : (r.kind # "native" \/ ~Due) /\ RecMicRejected(r)
  \/ ~Due /\ \E s \in DOMAIN streams : \E i \in DOMAIN streams[s].tracks :
                streams[s].kind = "display" /\ TrackEnded(s, i)

SpecShare == InitShare /\ [][NextShare]_vars

\* session.connect() of session s rejected: client.connect() rejects and the
\* catch of connectToRealtime() sets DISCONNECTED; the client keeps its session
\* and stays in sdkClientRef.
ConnectFailed(c, s) ==
  /\ BagIn(AwaitSession(s), conn[c])
  /\ sessions' = [sessions EXCEPT ![s].state = IF @ = "connecting" THEN "failed" ELSE @]
  /\ conn' = [conn EXCEPT ![c] = @ (-) One(AwaitSession(s))]
  /\ lastGum' = NoGum
  /\ emitted' = Emitted("connect", <<>>)
  /\ app' = [app EXCEPT !.sessionStatus = "DISCONNECTED", !.last = "connect failed"]
  /\ UNCHANGED <<envVars, hookVars, ctor, custom, orig, session, preGum>>

\* The page with a connection that can fail and a transport that can drop.
NextPage ==
  \/ NextShare
  \/ ~Due /\ \E c \in Clients, s \in DOMAIN sessions : ConnectFailed(c, s)
  \/ ~Due /\ \E c \in Clients, s \in DOMAIN sessions : TransportSignal(c, s, "disconnected")

SpecPage == InitShare /\ [][NextPage]_vars

\* The steps the page and the browser take on their own; clicks and the end
\* of the shared track are up to the user.
FairShare ==
  /\ SpecShare
  /\ WF_vars(FirstCommit)
  /\ WF_vars(AgentEffect)
  /\ WF_vars(~ContinuationDue /\ ~app.effect /\ \E src \in BOOLEAN : RecordingEffect(src))
  /\ WF_vars(~ContinuationDue /\ ~app.effect /\ ~RecordingDue /\ SharingEffect)
  /\ WF_vars(~Due /\ \E sh, ok \in BOOLEAN : KeyFetched(sh, ok))
  /\ WF_vars(MixCallDue /\ (GetCombinedHit \/ GetCombinedMiss))
  /\ WF_vars(\E r \in BagToSet(calls) :
               /\ r.kind # "native" \/ ~Due
               /\ MicRejected(r) \/ \E attaches \in BOOLEAN : MicResolved(r, attaches))
  /\ WF_vars(\E c \in Clients : ClientCreated(c))
  /\ WF_vars(\E c \in Clients : KeyResolved(c))
  /\ WF_vars(~Due /\ \E c \in Clients, s \in DOMAIN sessions : ConnectResolved(c, s))
  /\ WF_vars(~Due /\ \E n \in 0..MaxAudio : AudioOnlyResolved("first", n))
  /\ WF_vars(ToggleContinues)
  /\ WF_vars(\E r \in BagToSet(recCalls), starts \in BOOLEAN : StartRecordingResumes(r, starts))
  /\ WF_vars(\E r \in BagToSet(recCalls) :
               /\ r.kind # "native" \/ ~Due
               /\ RecMicRejected(r) \/ \E attaches \in BOOLEAN : RecMicResolved(r, attaches))

\* The consumers of the mixed stream: getCombinedAudioStream() has built the
\* stream from the microphone alone and cached it; a recorder, a download and
\* a client built with the cached stream then use it.
InitConsumers ==
  /\ gum = NativeFn
  /\ streams = <<MicStream, MixedStream>>
  /\ ctxs = <<[state |-> "running", mic |-> 1, micGain |-> MicGain,
               sec |-> Null, secGain |-> 0, dest |-> 2]>>
  /\ ctor = OneClient(2)
  /\ custom = CustomOf(ctor)
  /\ orig = [c \in Clients |-> NullFn]
  /\ session = [c \in Clients |-> Null]
  /\ sessions = <<>>
  /\ conn = [c \in Clients |-> EmptyBag]
  /\ preGum = [c \in Clients |-> NullFn]
  /\ lastGum = NoGum
  /\ emitted = NoEmit
  /\ app = FirstRender(NoItem)
  /\ combinedStreamRef = 2
  /\ browserAudioStreamRef = Null
  /\ audioContextRef = 1
  /\ isBrowserAudioEnabled = FALSE
  /\ isCapturingBrowserAudio = FALSE
  /\ browserAudioError = NoError
  /\ calls = EmptyBag
  /\ caps = EmptyBag
  /\ lastRet = Returned(2, "built")
  /\ lastCap = NoCap
  /\ mediaRecorderRef = Null
  /\ recordedChunksRef = <<>>
  /\ recorders = <<>>
  /\ recCalls = EmptyBag
  /\ dl = NoDownload

NextConsumers ==
  \/ StartRecordingHit
  \/ \E r \in BagToSet(recCalls), starts \in BOOLEAN : StartRecordingResumes(r, starts)
  \/ StopRecording
  \/ DownloadRecording
  \/ ~ResumeDue /\ DownloadResumes
  \/ \E c \in Clients : ConnectCall(c)
  \/ \E c \in Clients : KeyResolved(c)
  \/ ~ResumeDue /\ \E c \in Clients, s \in DOMAIN sessions : ConnectResolved(c, s)
  \/ \E c \in Clients : Disconnect(c)

SpecConsumers == InitConsumers /\ [][NextConsumers]_vars

\* The connection events of a client: connect(), disconnect() and the signals
\* of the transport, in any order.
TransportStatuses == {"connecting", "connected", "disconnected"}

NextEvents ==
  \/ \E c \in Clients : ConnectCall(c)
  \/ \E c \in Clients : ConnectNoop(c)
  \/ \E c \in Clients : KeyRejected(c)
  \/ \E c \in Clients : KeyResolved(c)
  \/ \E c \in Clients, s \in DOMAIN sessions : ConnectResolved(c, s)
  \/ \E c \in Clients, s \in DOMAIN sessions : ConnectRejected(c, s)
  \/ \E c \in Clients : Disconnect(c)
  \/ \E c \in Clients, s \in DOMAIN sessions, status \in TransportStatuses :
       TransportSignal(c, s, status)

SpecEvents == InitClient /\ [][NextEvents]_vars

\* connect() was called once and disconnect() was called while it awaited its
\* key: there was no session to close and nothing to restore, and 'disconnected'
\* was emitted. No connect() is called any more: the connect() settles,
\* disconnect() is called again and the transport signals, in any order;
\* getUserMedia is called in between. The client was constructed with either
\* mixed stream or with none.
InitSettle ==
  /\ gum = NativeFn
  /\ streams = <<MixedStream, MixedStream>>
  /\ ctxs = <<>>
  /\ \E s \in {Null, 1, 2} : ctor = OneClient(s)
  /\ custom = CustomOf(ctor)
  /\ orig = [c \in Clients |-> NullFn]
  /\ session = [c \in Clients |-> Null]
  /\ sessions = <<>>
  /\ conn = [c \in Clients |-> IF c = 1 THEN One(AwaitKey) ELSE EmptyBag]
  /\ preGum = [c \in Clients |-> NullFn]
  /\ lastGum = NoGum
  /\ emitted = [op |-> "disconnect", events |-> <<"disconnected">>, last |-> "disconnected"]
  /\ app = FirstRender(NoItem)
  /\ InitHook

NextSettle ==
  \/ \E c \in Clients : KeyRejected(c)
  \/ \E c \in Clients : KeyResolved(c)
  \/ \E c \in Clients, s \in DOMAIN sessions : ConnectResolved(c, s)
  \/ \E c \in Clients, s \in DOMAIN sessions : ConnectRejected(c, s)
  \/ \E c \in Clients : Disconnect(c)
  \/ \E c \in Clients, s \in DOMAIN sessions, status \in TransportStatuses :
       TransportSignal(c, s, status)
  \/ \E audio \in BOOLEAN : GetUserMediaCall(audio)

SpecSettle == InitSettle /\ [][NextSettle]_vars

\* connect() was called up to MaxPending times before the key arrived: each call
\* found #session null and awaits its own key. The calls settle one by one;
\* disconnect() and getUserMedia are called in between.
RECURSIVE Pending(_)
Pending(n) == IF n = 0 THEN EmptyBag ELSE Pending(n - 1) (+) One(AwaitKey)

InitPending ==
  /\ gum = NativeFn
  /\ streams = <<MixedStream, MixedStream>>
  /\ ctxs = <<>>
  /\ \E s \in {Null, 1} : ctor = OneClient(s)
  /\ custom = CustomOf(ctor)
  /\ orig = [c \in Clients |-> NullFn]
  /\ session = [c \in Clients |-> Null]
  /\ sessions = <<>>
  /\ \E n \in 1..MaxPending :
       conn = [c \in Clients |-> IF c = 1 THEN Pending(n) ELSE EmptyBag]
  /\ preGum = [c \in Clients |-> NullFn]
  /\ lastGum = NoGum
  /\ emitted = [op |-> "connect", events |-> <<>>, last |-> "none"]
  /\ app = FirstRender(NoItem)
  /\ InitHook

NextPending ==
  \/ \E c \in Clients : KeyRejected(c)
  \/ \E c \in Clients : KeyResolved(c)
  \/ \E c \in Clients, s \in DOMAIN sessions : ConnectResolved(c, s)
  \/ \E c \in Clients, s \in DOMAIN sessions : ConnectRejected(c, s)
  \/ \E c \in Clients : Disconnect(c)
  \/ \E audio \in BOOLEAN : GetUserMediaCall(audio)

SpecPending == InitPending /\ [][NextPending]_vars

\* The history events of one session. A client constructed without a custom
\* stream has connected; its session raises snapshots holding up to as many
\* items as there are ids, each an id and a status as the server assigns them.
ItemIds == {<<"item_", "1">>, <<"item_", "2">>}
Statuses == {<<"in_progress">>, <<"completed">>}
Items == [itemId : ItemIds, status : Statuses]
Histories == SeqsUpTo(Items, Cardinality(ItemIds))

InitHistory ==
  /\ gum = NativeFn
  /\ streams = <<MixedStream, MixedStream>>
  /\ ctxs = <<>>
  /\ ctor = OneClient(Null)
  /\ custom = CustomOf(ctor)
  /\ orig = [c \in Clients |-> NullFn]
  /\ session = [c \in Clients |-> IF c = 1 THEN 1 ELSE Null]
  /\ sessions = <<[client |-> 1, state |-> "open", gumAtCreate |-> NativeFn,
                   seenItems |-> {}, heard |-> NoHistory]>>
  /\ conn = [c \in Clients |-> EmptyBag]
  /\ preGum = [c \in Clients |-> NullFn]
  /\ lastGum = NoGum
  /\ emitted = [op |-> "connect", events |-> <<"connected">>, last |-> "connected"]
  /\ app = FirstRender(NoItem)
  /\ InitHook

NextHistory ==
  \/ \E s \in DOMAIN sessions, history \in Histories : HistoryUpdated(s, history)
  \/ \E c \in Clients : Disconnect(c)

SpecHistory == InitHistory /\ [][NextHistory]_vars

\* The page as long as it is on screen and after it was unmounted, with the
\* callers of navigator.mediaDevices.getUserMedia other than the mixer.
NextApp ==
  \/ NextShare
  \/ ~Due /\ Unmount
  \/ ~Due /\ \E audio \in BOOLEAN : GetUserMediaCall(audio)

SpecApp == InitShare /\ [][NextApp]_vars

\* ---------------------------------------------------------------- claims C1-C4
\* C1: after disconnect() returns, navigator.mediaDevices.getUserMedia is
\* reference-equal to the value it had before the client's connect() installed
\* the override.
C1_RestoredByReference ==
  [][\A c \in Clients :
       (Disconnect(c) /\ preGum[c] # NullFn) => gum' = preGum[c]]_vars

\* C2: wrap-once: the saved original of a client is the true pre-install
\* function, never a wrapper (nor a bound wrapper), however often the override
\* was installed.
C2_WrapOnce ==
  \A c \in Clients :
    orig[c] # NullFn => orig[c].base = 0

\* The steps of connect() other than the one that follows the ephemeral key.
ConnectOtherStep(c) ==
  \/ ConnectCall(c)
  \/ ConnectNoop(c)
  \/ KeyRejected(c)
  \/ \E s \in DOMAIN sessions : ConnectResolved(c, s) \/ ConnectRejected(c, s)

\* What connect() does to getUserMedia when the client holds a stream (has) or
\* not, at the step that creates the transport and starts session.connect().
ConnectInstalls(c, has) ==
  /\ KeyResolved(c) =>
       IF has
         THEN /\ gum' = WrapperFn(c)
              /\ sessions'[Len(sessions')].gumAtCreate = KindOf(WrapperFn(c))
         ELSE /\ gum' = gum
              /\ sessions'[Len(sessions')].gumAtCreate = KindOf(gum)
  /\ gum' # gum => ~ConnectOtherStep(c)

\* C3 (as stated): connect() installs the override exactly when the client was
\* constructed with a custom stream, before the transport is created and
\* session.connect() is called; otherwise connect() leaves getUserMedia alone.
C3_InstalledIffConstructedWith ==
  [][\A c \in Clients : ConnectInstalls(c, ctor[c] # Null)]_vars

\* C3 (amended): connect() installs the override exactly when the client's
\* custom stream (as constructed, or as last set by updateCustomAudioStream) is
\* non-null when connect() resumes with the ephemeral key; it is then in place
\* when the transport is created and session.connect() is called; otherwise
\* connect() leaves getUserMedia alone.
C3_InstalledIffStreamHeld ==
  [][\A c \in Clients : ConnectInstalls(c, custom[c] # Null)]_vars

\* A session whose transport was created under its own client's wrapper.
C3_Witness ==
  \E s \in DOMAIN sessions :
    /\ IsWrapperOf(sessions[s].gumAtCreate, sessions[s].client)
    /\ sessions[s].state = "open"

\* C4: a call of getUserMedia that enters an installed wrapper returns the
\* client's custom stream when audio is requested and a stream is set, and in
\* every other case reaches the original function with the same constraints.
C4_WrapperDispatch ==
  lastGum.owner # Null =>
    IF lastGum.audio /\ lastGum.custom # Null
      THEN lastGum.result = StreamResult(lastGum.custom)
      ELSE lastGum.result = NativeResult

\* ---------------------------------------------------------------- claim C5
\* C5: whenever an installed wrapper hands the custom stream to a caller,
\* every track of that stream is live.
C5_WrapperStreamLive ==
  lastGum.result.kind = "stream" => lastGum.live

\* ---------------------------------------------------------------- claims C6-C10
\* A step that is a call of getCombinedAudioStream().
GetCombinedCall == GetCombinedHit \/ GetCombinedMiss

\* C6: memoization: a getCombinedAudioStream() call that follows a call which
\* returned a stream, with no track ended or stopped, no stopped capture and no
\* cleanup() in between, returns the same stream, requests no microphone and
\* builds no graph.
C6_Memoization ==
  [][(lastRet.stream # Null /\ GetCombinedCall)
       => /\ lastRet'.stream = lastRet.stream
          /\ lastRet'.how = "again"
          /\ UNCHANGED <<streams, ctxs, calls, combinedStreamRef, audioContextRef>>]_vars

\* A call has returned the stream the call before it had returned.
C6_Witness ==
  /\ lastRet.how = "again"
  /\ lastRet.stream = combinedStreamRef
  /\ hasValidTracks(lastRet.stream)

\* The tracks of stream s are all live.
AllLive(s) == \A i \in DOMAIN streams[s].tracks : streams[s].tracks[i].state = "live"

\* C7: invalidation: a call made after a track of a source of the cached mixed
\* stream ended is not served from the cache: a stream returned from the cache
\* has the tracks of its microphone and shared-tab sources live.
C7_InvalidatedBySourceEnd ==
  lastRet.how = "cached" =>
    \A g \in DOMAIN ctxs :
      ctxs[g].dest = lastRet.stream =>
        /\ AllLive(ctxs[g].mic)
        /\ ctxs[g].sec # Null => AllLive(ctxs[g].sec)

\* C8: coalescing: overlapping getCombinedAudioStream() calls share one build:
\* at most one microphone request is outstanding.
C8_OneBuildInFlight ==
  BagCardinality(calls) <= 1

\* The graph a build step has just added.
NewGraph == ctxs'[Len(ctxs')]

\* The held shared-tab stream is valid when the build looks at it.
SecondaryValid == browserAudioStreamRef # Null /\ hasValidTracks(browserAudioStreamRef)

\* What every successful build does: the microphone branch at gain 1.0, the
\* output cached and returned, an invalid held stream dropped.
BuildBasics ==
  /\ NewGraph.mic # Null /\ NewGraph.micGain = MicGain
  /\ lastRet' = Returned(NewGraph.dest, "built")
  /\ combinedStreamRef' = NewGraph.dest
  /\ (browserAudioStreamRef # Null /\ ~SecondaryValid)
       => browserAudioStreamRef' = Null /\ isBrowserAudioEnabled' = FALSE

\* C9 (as stated): the graph has the microphone branch at gain 1.0 and has a
\* secondary branch, at gain 0.7, if and only if a shared-tab stream is held
\* and valid; a held but invalid one is dropped and the build still succeeds.
C9_SecondaryIffHeldValid ==
  [][\A r \in BagToSet(calls), attaches \in BOOLEAN :
       MicResolved(r, attaches)
         => /\ BuildBasics
            /\ IF SecondaryValid
                 THEN NewGraph.sec = browserAudioStreamRef /\ NewGraph.secGain = BrowserGain
                 ELSE NewGraph.sec = Null]_vars

\* C9 (amended): the graph has the microphone branch at gain 1.0 and has a
\* secondary branch, at gain 0.7, if and only if a shared-tab stream is held,
\* valid and attached without an error; when attaching it raises an error the
\* build succeeds with the microphone only and the held stream and the enabled
\* flag stay as they are; a held but invalid one is dropped.
C9_SecondaryIffAttached ==
  [][\A r \in BagToSet(calls), attaches \in BOOLEAN :
       MicResolved(r, attaches)
         => /\ BuildBasics
            /\ IF SecondaryValid /\ attaches
                 THEN /\ NewGraph.sec = browserAudioStreamRef
                      /\ NewGraph.secGain = BrowserGain
                 ELSE NewGraph.sec = Null
            /\ SecondaryValid
                 => UNCHANGED <<browserAudioStreamRef, isBrowserAudioEnabled>>]_vars

\* A cached stream mixed from the microphone and a live shared-tab stream.
C9_Witness ==
  \E g \in DOMAIN ctxs :
    /\ ctxs[g].dest = combinedStreamRef
    /\ ctxs[g].micGain = MicGain
    /\ ctxs[g].sec # Null /\ ctxs[g].secGain = BrowserGain
    /\ ctxs[g].sec = browserAudioStreamRef

Issued(p) == CopiesIn(p, caps') > CopiesIn(p, caps)
Settled(p) == CopiesIn(p, caps') < CopiesIn(p, caps)
Strategies == {"first", "second", "third"}

\* C11: startBrowserAudioCapture tries the strategies in the order audio-only
\* with processing disabled, audio-only default, audio+video: a call begins
\* with the first; the second is issued only in the step in which the first
\* failed and the third only in the step in which the second failed; the step
\* in which the call returns issues no strategy, so a call prompts at most
\* three times, once per strategy.
C11_StrategyOrder ==
  [][/\ Issued("first") => (\A p \in Strategies : ~Settled(p)) /\ lastCap' = NoCap
     /\ Issued("second") => Settled("first") /\ lastCap' = NoCap
     /\ Issued("third") => Settled("second") /\ lastCap' = NoCap
     /\ lastCap'.done => \A p \in Strategies : ~Issued(p)
     /\ BagCardinality(caps') <=
          BagCardinality(caps) + (IF Issued("first") THEN 1 ELSE 0)]_vars

\* The third strategy is awaited, the first two having failed.
C11_Witness == BagIn("third", caps)

\* C12: startBrowserAudioCapture never rejects: the step that ends an
\* invocation returns a value, and when that value is null (unsupported
\* environment, all strategies failed, stream without audio tracks)
\* browserAudioError is non-null and isBrowserAudioEnabled and
\* isCapturingBrowserAudio are false.
C12_FailureResolvesNull ==
  [][/\ BagCardinality(caps') < BagCardinality(caps) => lastCap'.done
     /\ (lastCap'.done /\ lastCap'.stream = Null) =>
          /\ browserAudioError' # NoError
          /\ ~isBrowserAudioEnabled'
          /\ ~isCapturingBrowserAudio']_vars

\* A call has returned null for a stream without audio tracks.
C12_Witness ==
  /\ lastCap = CapReturned(Null, NoInner)
  /\ browserAudioError = NoAudioTracks
  /\ ~isCapturingBrowserAudio

\* C13: the support check comes before every capture attempt: a call in an
\* environment the check reports as unsupported issues no getDisplayMedia()
\* call and leaves exactly the check's reason in browserAudioError, and a
\* first-strategy call is issued only by a call in a supported environment.
C13_ProbedBeforeCapture ==
  [][/\ \A e \in Envs :
          (CaptureCall(e) /\ ~checkBrowserAudioSupport(e).supported) =>
             /\ caps' = caps
             /\ browserAudioError' = Plain(checkBrowserAudioSupport(e).reason)
             /\ lastCap' = CapReturned(Null, NoInner)
     /\ Issued("first") =>
          \E e \in Envs : CaptureCall(e) /\ checkBrowserAudioSupport(e).supported]_vars

\* A call on Firefox for Android has returned null with the check's reason.
C13_Witness ==
  /\ lastCap = CapReturned(Null, NoInner)
  /\ caps = EmptyBag
  /\ browserAudioError =
       Plain(checkBrowserAudioSupport([Desktop EXCEPT !.firefox = TRUE, !.android = TRUE]).reason)
\* The errors startBrowserAudioCapture() leaves when the third strategy was
\* rejected.
AllFailedErrors == {SurfacedError(Composed(m)) : m \in DisplayErrors}

\* The stream the build of this step returns has live tracks only.
BuiltValid ==
  \A i \in DOMAIN streams'[NewGraph.dest].tracks :
    streams'[NewGraph.dest].tracks[i].state = "live"

\* The call of this step returned after its third strategy failed.
ThirdFailed == lastCap'.done /\ lastCap'.inner # NoInner

C14_PrimaryOnlyAfterFailure ==
  [][\A r \in BagToSet(calls), attaches \in BOOLEAN :
       (MicResolved(r, attaches) /\ browserAudioError \in AllFailedErrors)
         => NewGraph.sec = Null]_vars

C15_EndedClearsCapture ==
  [][\A s \in DOMAIN streams : \A i \in DOMAIN streams[s].tracks :
       (TrackEnded(s, i) /\ streams[s].listen /\ streams[s].tracks[i].kind = "audio")
         => /\ browserAudioStreamRef' = Null
            /\ ~isBrowserAudioEnabled'
            /\ ~isCapturingBrowserAudio']_vars

\* A captured stream with an ended audio track is no longer held and sharing
\* is off, while the stream mixed from it is still cached.
C15_Witness ==
  /\ browserAudioStreamRef = Null
  /\ ~isBrowserAudioEnabled /\ ~isCapturingBrowserAudio
  /\ \E g \in DOMAIN ctxs :
       /\ ctxs[g].dest = combinedStreamRef
       /\ ctxs[g].sec # Null
       /\ streams[ctxs[g].sec].listen
       /\ ~hasValidTracks(ctxs[g].sec)
\* ---------------------------------------------------------------- claims C16-C20
\* C16: stopBrowserAudioCapture and stopRecording are idempotent from every
\* state: the first call leaves the held stream null, the flags false and the
\* recorder handle null, and a second call, made in the state the first one
\* left, stops no track that is still live, makes no requestData() or stop()
\* call on a recorder, and leaves that state as it is.
C16_StopsIdempotent ==
  LET cap1 == StopCaptureOf(streams, browserAudioStreamRef)
      cap2 == StopCaptureOf(cap1.streams, cap1.ref)
      rec1 == StopRecordingOf(recorders, mediaRecorderRef)
      rec2 == StopRecordingOf(rec1.recorders, rec1.ref)
  IN /\ cap1.ref = Null
     /\ cap2 = cap1
     /\ rec1.ref = Null
     /\ rec2.recorders = rec1.recorders /\ rec2.ref = rec1.ref
     /\ rec2.issued = 0
     /\ mediaRecorderRef # Null => recorders[mediaRecorderRef].state = "recording"

\* Both have been called with something to stop: a captured stream with its
\* tracks stopped is no longer held, and a recorder is inactive with its
\* last events queued and no handle to it.
C16_Witness ==
  /\ browserAudioStreamRef = Null /\ ~isBrowserAudioEnabled /\ ~isCapturingBrowserAudio
  /\ \E s \in DOMAIN streams : streams[s].listen /\ ~hasValidTracks(s)
  /\ mediaRecorderRef = Null
  /\ \E k \in DOMAIN recorders : recorders[k].state = "inactive" /\ recorders[k].pending = 2
\* The latest step was a disconnect().
JustDisconnected == emitted.op \in {"disconnect", "disconnect again"}

\* C17: disconnect() is idempotent: a disconnect() that directly follows a
\* disconnect() closes no session, leaves navigator.mediaDevices.getUserMedia
\* and the saved original as they are, and emits no connection_change event.
C17_DisconnectIdempotent ==
  [][\A c \in Clients :
       (Disconnect(c) /\ JustDisconnected)
         => /\ UNCHANGED <<sessions, session, gum, orig>>
            /\ emitted'.events = <<>>]_vars
\* The chunks in recordedChunksRef that recorder k delivered.
ChunksOf(k) == SelectSeq(recordedChunksRef, LAMBDA chunk : chunk.rec = k)

\* C18: a new recording session replaces the old one: while a recorder is
\* held, the chunk sequence downloadRecording() reads holds chunks of that
\* recorder only, none of an earlier one.
C18_NewSessionReplacesOld ==
  mediaRecorderRef # Null => ChunksOf(mediaRecorderRef) = recordedChunksRef

\* C19: a startRecording() whose getCombinedAudioStream() returns null returns
\* without making a recorder: the recorders, the handle and the chunk
\* sequence are as they were.
C19_NoStreamNoRecorder ==
  [][\A r \in BagToSet(recCalls) :
       RecMicRejected(r)
         => /\ lastRet' = Returned(Null, "failed")
            /\ UNCHANGED <<recorders, mediaRecorderRef, recordedChunksRef>>]_vars

\* A startRecording() has failed to get a stream, and there is no recorder.
C19_Witness ==
  /\ lastRet = Returned(Null, "failed")
  /\ recCalls = EmptyBag
  /\ recorders = <<>> /\ mediaRecorderRef = Null /\ recordedChunksRef = <<>>

\* C20: recordedChunksRef holds non-empty chunks only; a dataavailable event
\* with a non-empty Blob puts it at the end, one with an empty Blob leaves the
\* sequence as it is, and every step keeps the chunks already there, in place.
C20_ChunksAppendOnly ==
  [][/\ \A i \in DOMAIN recordedChunksRef' : recordedChunksRef'[i].size > 0
     /\ Len(recordedChunksRef') >= Len(recordedChunksRef)
     /\ SubSeq(recordedChunksRef', 1, Len(recordedChunksRef)) = recordedChunksRef
     /\ \A k \in DOMAIN recorders, size \in ChunkSizes :
          DataAvailable(k, size)
            => recordedChunksRef' =
                 IF size > 0
                   THEN recordedChunksRef \o <<[rec |-> k, size |-> size]>>
                   ELSE recordedChunksRef]_vars

\* A stopped recorder has delivered both its events, one with an empty Blob:
\* one chunk of it is in the sequence.
C20_Witness ==
  \E k \in DOMAIN recorders :
    /\ recorders[k].state = "inactive" /\ recorders[k].pending = 0
    /\ Len(ChunksOf(k)) = 1
\* ---------------------------------------------------------------- claims C21-C22
\* This step takes a downloadRecording() to its test of the chunk sequence.
ReachesTest == (DownloadRecording /\ ~Recording) \/ DownloadResumes

\* C21: a downloadRecording() that finds the chunk sequence empty returns
\* with nothing recorded: it passes nothing to the converter and downloads
\* no file.
C21_EmptyGivesNothing ==
  [][(ReachesTest /\ recordedChunksRef = <<>>)
       => /\ dl'.last = "nothing"
          /\ dl'.converting = dl.converting
          /\ dl'.artifacts = dl.artifacts]_vars

\* A downloadRecording() has returned with nothing recorded.
C21_Witness ==
  /\ dl.last = "nothing" /\ dl.started > 0
  /\ dl.converting = EmptyBag /\ dl.artifacts = <<>>

\* C22: a downloadRecording() that finds chunks passes one Blob to the
\* converter, of type audio/webm, with the bytes of all chunks in the order of
\* the sequence; when the converter resolves, one file is downloaded, made
\* from that Blob; when it rejects, none is and the call returns.
C22_OneBlobOneArtifact ==
  [][/\ (ReachesTest /\ recordedChunksRef # <<>>)
          => \E blob \in BagToSet(dl'.converting) :
               /\ dl'.converting = dl.converting (+) One(blob)
               /\ blob.type = "audio/webm"
               /\ blob.data = [i \in DOMAIN recordedChunksRef |-> recordedChunksRef[i].rec]
               /\ dl'.artifacts = dl.artifacts
     /\ \A blob \in BagToSet(dl.converting) :
          /\ ConvertResolved(blob)
               => /\ dl'.artifacts = Append(dl.artifacts, dl'.artifacts[Len(dl'.artifacts)])
                  /\ dl'.artifacts[Len(dl'.artifacts)].from = blob
                  /\ dl'.converting = dl.converting (-) One(blob)
          /\ ConvertRejected(blob)
               => /\ dl'.artifacts = dl.artifacts
                  /\ dl'.converting = dl.converting (-) One(blob)
                  /\ dl'.last = "failed"]_vars

\* A file has been downloaded that was made from two chunks, the second
\* recorder's before the first's, as they are in the sequence.
C22_Witness ==
  /\ dl.last = "downloaded"
  /\ Len(dl.artifacts) = 1
  /\ dl.artifacts[1].from.data = <<2, 1>>
  /\ Len(recordedChunksRef) >= 2
  /\ recordedChunksRef[1].rec = 2 /\ recordedChunksRef[2].rec = 1

\* ---------------------------------------------------------------- claims C23-C25
\* C23: 'connected' is emitted only when session.connect() has resolved and only
\* directly after a 'connecting': the last connection_change event the
\* listeners received before it is 'connecting', whatever connect(),
\* disconnect() and the transport did in between.
C23_ConnectedFollowsConnecting ==
  [][\A c \in Clients, s \in DOMAIN sessions :
       ConnectResolved(c, s) => emitted.last = "connecting"]_vars

\* C24: when the transport signals 'disconnected' the listeners receive exactly
\* one connection_change 'disconnected', and the client creates no session and
\* starts no connect(); a transport signal with any other status emits nothing.
C24_TransportForwardedOnce ==
  [][\A c \in Clients, s \in DOMAIN sessions, status \in TransportStatuses :
       TransportSignal(c, s, status)
         => /\ emitted'.events = IF status = "disconnected"
                                   THEN <<"disconnected">> ELSE <<>>
            /\ Len(sessions') = Len(sessions)
            /\ UNCHANGED <<session, conn>>]_vars

C24_Witness ==
  /\ emitted.op = "transport"
  /\ emitted.events = <<"disconnected">>
  /\ \E c \in Clients :
       /\ session[c] # Null
       /\ sessions[session[c]].state = "disconnected"
       /\ conn[c] = EmptyBag

\* The (itemId, status) pairs in a sequence of snapshots, and the number of
\* times an item occurs in a sequence of items.
PairsIn(snapshots) ==
  UNION {{snapshots[i][j] : j \in DOMAIN snapshots[i]} : i \in DOMAIN snapshots}
Times(item, items) == Cardinality({i \in DOMAIN items : items[i] = item})

\* The items of a snapshot whose pair is in no earlier snapshot and at no
\* earlier place of this one, in the order of the snapshot.
FirstSeen(history, earlier) ==
  SelectSeq([i \in DOMAIN history |->
               IF /\ history[i] \notin earlier
                  /\ \A j \in 1..(i - 1) : history[j] # history[i]
                 THEN <<history[i]>> ELSE <<>>],
            LAMBDA x : x # <<>>)

\* C25: within one session, every history update emits history_added for
\* exactly the pairs (itemId, status) that appear in it for the first time, so
\* that each pair that ever appeared was emitted exactly once, and emits one
\* history_updated carrying the snapshot, new pairs or not.
C25_HistoryAddedOnce ==
  [][\A s \in DOMAIN sessions, history \in Histories :
       HistoryUpdated(s, history)
         => LET was == sessions[s].heard
                now == sessions'[s].heard
                new == FirstSeen(history, PairsIn(was.received))
            IN /\ now.added = was.added \o [i \in DOMAIN new |-> new[i][1]]
               /\ now.updated = Append(was.updated, history)
               /\ \A item \in Items :
                    Times(item, now.added)
                      = IF item \in PairsIn(now.received) THEN 1 ELSE 0]_vars

C25_Witness ==
  \E s \in DOMAIN sessions :
    LET h == sessions[s].heard
    IN /\ Len(h.received) = 2
       /\ \E i \in DOMAIN h.received[1], j \in DOMAIN h.received[2] :
            h.received[1][i] = h.received[2][j]
       /\ \E j \in DOMAIN h.received[2] :
            h.received[2][j] \notin PairsIn(<<h.received[1]>>)
       /\ Len(h.updated) = 2
       /\ Len(h.added) = Cardinality(PairsIn(h.received))

\* ---------------------------------------------------------------- claims C27-C28
\* The AudioContexts created for mixing that are not closed.
OpenContexts == {g \in DOMAIN ctxs : ctxs[g].state # "closed"}

\* C27: every open mixing context is the one audioContextRef holds, so that at
\* most one is open at any time, a rebuild leaves the old graph's context
\* closed, and none is open after cleanup().
C27_OneOpenContext == OpenContexts \subseteq {audioContextRef}

\* C28: after cleanup() no track of a stream the hook acquired is live: the
\* microphone streams obtained for mixing, the shared-tab streams and the mixed
\* streams are all stopped, however many builds went before.
C28_CleanupStopsAllTracks ==
  [][Cleanup => \A s \in DOMAIN streams' : \A i \in DOMAIN streams'[s].tracks :
                  streams'[s].tracks[i].state # "live"]_vars

\* ---------------------------------------------------------------- claims C26, C29, C30
\* C26: when the response of /api/session lacks client_secret.value, connecting
\* is aborted: connectToRealtime() ends with sessionStatus DISCONNECTED, having
\* created no RealtimeClient, started no connect() and installed no override
\* of getUserMedia.
C26_NoKeyAborts ==
  [][(\E sh \in BOOLEAN : KeyFetched(sh, FALSE))
       => /\ app'.sessionStatus = "DISCONNECTED"
          /\ Attempts' = Attempts - 1
          /\ app'.sdkClientRef = app.sdkClientRef
          /\ ~ContinuationDue'
          /\ UNCHANGED <<ctor, custom, conn, session, sessions, gum, orig>>]_vars

C26_Witness ==
  /\ app.last = "no key"
  /\ app.sessionStatus = "DISCONNECTED"
  /\ app.sdkClientRef = Null
  /\ sessions = <<>>
  /\ conn = [c \in Clients |-> EmptyBag]
  /\ gum = NativeFn

\* C29: once capture of browser audio has succeeded and sharing is on, the
\* toolbar button reads 'Browser Audio ON', the 'Browser audio active'
\* indicator is shown, and the button is enabled.
C29_ButtonOnAfterCapture ==
  (app.isBrowserAudioSharing /\ isBrowserAudioEnabled)
    => Button = [label |-> "Browser Audio ON", disabled |-> FALSE, active |-> TRUE]

\* The latest step of the page was an action of the user.
UserActed == app.last \in {"connect", "disconnect", "agent", "toggle", "alert"}

\* C30: when sharing is switched while the session is CONNECTED, the session
\* is disconnected and then, unless the user acts again, becomes CONNECTED
\* again: from the step that switched sharing and disconnected, taken with no
\* connectToRealtime() or connect() of an earlier click still in flight.
C30_ResetReconnects ==
  (/\ app.last = "reset"
   /\ Attempts = 0
   /\ \A c \in Clients : conn[c] = EmptyBag)
    ~> (app.sessionStatus = "CONNECTED" \/ UserActed)

\* ---------------------------------------------------------------- claims C31-C32
\* A step of a consumer of the mixed stream: the recorder, the download, or a
\* client's connect() and disconnect().
ConsumerStep ==
  \/ StartRecordingHit
  \/ \E r \in BagToSet(recCalls), starts \in BOOLEAN : StartRecordingResumes(r, starts)
  \/ StopRecording
  \/ DownloadRecording
  \/ DownloadResumes
  \/ \E c \in Clients : ConnectCall(c) \/ KeyResolved(c) \/ Disconnect(c)
  \/ \E c \in Clients, s \in DOMAIN sessions : ConnectResolved(c, s)

\* C31: the consumers read the mixed stream only: a step of startRecording,
\* stopRecording, downloadRecording or of a client's connect() / disconnect()
\* taken while the cache holds a valid stream leaves the cache holding that
\* stream and leaves the stream's tracks as they were.
C31_ConsumersReadOnly ==
  [][(CacheHit /\ ConsumerStep)
       => /\ combinedStreamRef' = combinedStreamRef
          /\ streams'[combinedStreamRef] = streams[combinedStreamRef]]_vars

C31_Witness ==
  /\ CacheHit
  /\ mediaRecorderRef # Null
  /\ dl.started > 0
  /\ \E c \in Clients :
       /\ custom[c] = combinedStreamRef
       /\ session[c] # Null
       /\ sessions[session[c]].state = "open"
       /\ gum.base = c

\* The conversions in flight once the chunk sequence has been read.
ReadsChunks ==
  IF recordedChunksRef = <<>>
    THEN dl.converting
    ELSE dl.converting (+) One(NewBlob(recordedChunksRef, "audio/webm"))

\* C32: downloadRecording() called while the recorder is recording requests a
\* flush and waits, reading no chunk yet; when its wait ends it reads the
\* chunk sequence as it is then, chunks delivered during the wait included;
\* called with no recorder recording it requests nothing, does not wait and
\* reads the chunk sequence at once.
C32_FlushThenWait ==
  [][/\ (DownloadRecording /\ Recording)
          => /\ recorders'[mediaRecorderRef].pending
                  = recorders[mediaRecorderRef].pending + 1
             /\ dl'.waiting = dl.waiting + 1
             /\ dl'.converting = dl.converting
     /\ (DownloadRecording /\ ~Recording)
          => /\ recorders' = recorders
             /\ dl'.waiting = dl.waiting
             /\ dl'.converting = ReadsChunks
     /\ DownloadResumes
          => /\ dl'.waiting = dl.waiting - 1
             /\ dl'.converting = ReadsChunks]_vars

C32_Witness ==
  /\ Recording
  /\ dl.last = "converting"
  /\ \E blob \in BagToSet(dl.converting) : \E i \in DOMAIN blob.data :
       blob.data[i] = mediaRecorderRef

\* ---------------------------------------------------------------- claims C33-C36
\* C33: when disconnect() was called while a connect() was in flight and no
\* connect() is called afterwards, then once the connect() has settled the
\* client holds no session, its wrapper is not the ambient getUserMedia and the
\* last connection_change event the listeners received is 'disconnected'.
C33_DisconnectWins ==
  \A c \in Clients :
    conn[c] = EmptyBag
      => /\ session[c] = Null
         /\ WrapperOwner(gum) # c
         /\ emitted.last = "disconnected"

\* The sessions client c created that no disconnect() has closed.
Unclosed(c) == {s \in DOMAIN sessions : sessions[s].client = c /\ sessions[s].state # "closed"}

\* C34: between two disconnect() calls a client creates at most one session and
\* installs its wrapper at most once: at any time at most one session it
\* created has not been closed by disconnect(), and the function it saved as
\* the original is not its own wrapper.
C34_OneSessionPerConnect ==
  \A c \in Clients : Cardinality(Unclosed(c)) <= 1 /\ WrapperOwner(orig[c]) # c

\* No connection attempt of the page is in flight.
NoAttempt == Attempts = 0 /\ \A c \in Clients : conn[c] = EmptyBag

\* C35: whenever sessionStatus is DISCONNECTED and no connection attempt is in
\* flight, the ambient getUserMedia is no client's wrapper and no client holds
\* an open session.
C35_DisconnectedIsClean ==
  (app.sessionStatus = "DISCONNECTED" /\ NoAttempt)
    => /\ WrapperOwner(gum) = Null
       /\ \A c \in Clients :
            session[c] # Null => sessions[session[c]].state # "open"

\* C36: once the user has disconnected while the page was connecting, and as
\* long as the user starts no new connection, sessionStatus is not CONNECTED
\* and no client holds a session that is connecting or open.
C36_DisconnectIsFinal ==
  app.cut => /\ app.sessionStatus # "CONNECTED"
             /\ \A c \in Clients :
                  session[c] # Null => sessions[session[c]].state = "closed"

\* ---------------------------------------------------------------- claims C37-C40
\* The recorders that are recording.
Active == {k \in DOMAIN recorders : recorders[k].state = "recording"}

\* C37: at most one recorder is recording at any time, and while sessionStatus
\* is not CONNECTED and the effect on [sessionStatus] has run for it (its
\* cleanup has called stopRecording() and no startRecording() was called
\* since), no recorder is recording.
C37_StopIsFinal ==
  /\ Cardinality(Active) <= 1
  /\ (app.sessionStatus # "CONNECTED" /\ app.seen = app.sessionStatus) => Active = {}

\* C38: the getUserMedia call of createCombinedAudioStream() is answered by
\* the real device function, and the primary source of every graph it builds
\* is a microphone stream, never a mixed stream built before, also while a
\* client's wrapper is installed.
C38_MixerReachesDevice ==
  /\ \A r \in BagToSet(calls) : r.kind # "stream"
  /\ \A i \in DOMAIN ctxs : streams[ctxs[i].mic].kind = "mic"

\* C39: when a startBrowserAudioCapture() resolves to null, every track of the
\* stream getDisplayMedia handed to that call has been stopped.
C39_FailedCaptureStopsTracks ==
  [][(lastCap'.done /\ lastCap'.stream = Null)
       => \A s \in (DOMAIN streams') \ (DOMAIN streams) :
            \A i \in DOMAIN streams'[s].tracks : streams'[s].tracks[i].state = "ended"]_vars

\* C40: whenever no startBrowserAudioCapture() is in flight,
\* isBrowserAudioEnabled is true exactly when a shared-tab stream is held and
\* all its tracks are live, and browserAudioError is set only when
\* isBrowserAudioEnabled is false.
C40_FlagsMatchHandle ==
  caps = EmptyBag
    => /\ isBrowserAudioEnabled
            <=> (browserAudioStreamRef # Null /\ hasValidTracks(browserAudioStreamRef))
       /\ browserAudioError # NoError => ~isBrowserAudioEnabled

====
